---------------------------- MODULE Spec2Model ----------------------------
(***************************************************************************)
(* Model of the telemetry ingestion pipeline of utils/process_datasets.py  *)
(* (with the identity store and persistence gateway of utils/db.py).       *)
(*                                                                         *)
(* The module holds several specifications over one set of variables:      *)
(*   SpecDetect  - detect_trip_boundaries applied to bounded tables        *)
(*   SpecPlate   - standardize_vehicle_number applied once and twice       *)
(*   SpecCols    - standardize_columns applied once and twice              *)
(*   SpecBatch   - process_all_files over folders of files, with the       *)
(*                 identity store and the persistence gateway              *)
(*   SpecDryRun  - the same batch when main was given --dry-run            *)
(*   SpecRace    - two callers of ensure_user_exists on one users table    *)
(*   SpecSynth   - generate_realistic_field called twice, in one program   *)
(*                 execution or in two                                     *)
(*   SpecValidate - validate_trip_data applied to bounded records          *)
(*   SpecIdentity - extract_user_id and extract_vehicle_number called for  *)
(*                 one file, among other draws of the random generator     *)
(*   SpecIngest  - process_file_with_error_handling on one file, with      *)
(*                 process_trip_segment and validate_trip_data             *)
(* Variables a specification does not use stay at their initial value.     *)
(***************************************************************************)
EXTENDS Integers, Sequences, FiniteSets, TLC

VARIABLES
    df,               \* the table handed to detect_trip_boundaries
    trip_boundaries,  \* the list it returned
    strategy,         \* the return statement it took
    dpc,              \* "input" before the call, "returned" after it
    vn_in,            \* the string handed to standardize_vehicle_number
    vn_out,           \* standardize_vehicle_number(vn_in)
    vn_twice,         \* standardize_vehicle_number(vn_out)
    ppc,              \* "input", "once", "twice"
    cols_in,          \* df.columns handed to standardize_columns
    cols_once,        \* the columns of standardize_columns(df)
    cols_twice,       \* the columns of standardize_columns(standardize_columns(df))
    cpc,              \* "input", "once", "twice"
    dry_run,          \* args.dry_run: db.add_trip is replaced by a function that only logs
    folders,          \* DATASET_FOLDERS as found on disk: [isdir, nfiles] each
    folder_idx,       \* position of the folder loop (1-based)
    file_idx,         \* position of the file loop inside the folder (1-based)
    bpc,              \* position in process_all_files
    file_locals,              \* locals of process_file_with_error_handling for the current file
    trip_data,        \* the record about to be handed to db.add_trip
    processed_files,  \* list of (filename, trip_count)
    skipped_files,    \* list of (filename, reasons)
    total_trips_processed,
    total_files_found,
    users,            \* rows of the users table
    trips,            \* rows of the trips table, in insertion order
    visited,          \* the files handed to process_file_with_error_handling, in order
    trip_error_log,   \* the "Trip error in ..." warnings logged (lines 929-930)
    summary,          \* the dictionary process_all_files returns
    workers,          \* the callers of ensure_user_exists and where each of them stands
    str_hashes,       \* per program execution: the values hash() has given to strings
    runs,             \* the calls of generate_realistic_field and what each returned
    validation,       \* a call of validate_trip_data: the record given, the record after, the result
    identity,         \* calls of extract_user_id and extract_vehicle_number for one file
    ingest,           \* process_file_with_error_handling on one file: its locals and the store
    extraction,       \* calls of process_trip_segment on one segment: the records it built
    synthesis         \* a call of generate_realistic_field: its draws and the series returned

varsDetect == <<df, trip_boundaries, strategy, dpc>>
varsPlate == <<vn_in, vn_out, vn_twice, ppc>>
varsCols == <<cols_in, cols_once, cols_twice, cpc>>
varsLoops ==
    <<dry_run, folders, folder_idx, file_idx, bpc, file_locals, trip_data, processed_files, skipped_files,
      total_trips_processed, total_files_found, trips, visited, trip_error_log, summary>>
varsBatch == <<varsLoops, users>>
varsRace == <<workers, users>>
varsSynth == <<str_hashes, runs>>
varsLast == <<extraction, synthesis>>
varsMore == <<varsSynth, validation, identity, ingest, varsLast>>

vars == <<varsDetect, varsPlate, varsCols, varsLoops, users, workers, varsMore>>

\* what each specification leaves alone
othersDetect == <<varsPlate, varsCols, varsBatch, workers, varsMore>>
othersPlate == <<varsDetect, varsCols, varsBatch, workers, varsMore>>
othersCols == <<varsDetect, varsPlate, varsBatch, workers, varsMore>>
othersBatch == <<varsDetect, varsPlate, varsCols, workers, varsMore>>
othersRace == <<varsDetect, varsPlate, varsCols, varsLoops, varsMore>>
othersSynth ==
    <<varsDetect, varsPlate, varsCols, varsBatch, workers, validation, identity, ingest, varsLast>>
othersValidate ==
    <<varsDetect, varsPlate, varsCols, varsBatch, workers, varsSynth, identity, ingest, varsLast>>
othersIdentity ==
    <<varsDetect, varsPlate, varsCols, varsBatch, workers, varsSynth, validation, ingest, varsLast>>
othersIngest ==
    <<varsDetect, varsPlate, varsCols, varsBatch, workers, varsSynth, validation, identity, varsLast>>
othersExtract ==
    <<varsDetect, varsPlate, varsCols, varsBatch, workers, varsSynth, validation, identity, ingest,
      synthesis>>
othersSynthesis ==
    <<varsDetect, varsPlate, varsCols, varsBatch, workers, varsSynth, validation, identity, ingest,
      extraction>>

(***************************************************************************)
(* Program constants.                                                      *)
(***************************************************************************)
TIMESTAMP_GAP_THRESHOLD_MINUTES == 30
ZERO_SPEED_THRESHOLD_POINTS == 50

(***************************************************************************)
(* Bounds of the model.                                                    *)
(***************************************************************************)
MaxBlocks == 3
MaxPlateLen == 4
MaxCols == 2
MaxFiles == 2
MaxUserId == 2
MaxCalls == 2
MaxSegmentRows == 6
MaxDraws == 1

\* a segment of fewer rows is rejected before it is processed
MIN_SEGMENT_ROWS == 5

(***************************************************************************)
(* Strings are sequences of one-character strings.                         *)
(***************************************************************************)
LowerLetters ==
    <<"a", "b", "c", "d", "e", "f", "g", "h", "i", "j", "k", "l", "m",
      "n", "o", "p", "q", "r", "s", "t", "u", "v", "w", "x", "y", "z">>
UpperLetters ==
    <<"A", "B", "C", "D", "E", "F", "G", "H", "I", "J", "K", "L", "M",
      "N", "O", "P", "Q", "R", "S", "T", "U", "V", "W", "X", "Y", "Z">>
Digits == {"0", "1", "2", "3", "4", "5", "6", "7", "8", "9"}

Range(f) == { f[i] : i \in DOMAIN f }

LowerSet == Range(LowerLetters)
UpperSet == Range(UpperLetters)
ToUpper == [c \in LowerSet |-> UpperLetters[CHOOSE i \in DOMAIN LowerLetters : LowerLetters[i] = c]]
ToLower == [c \in UpperSet |-> LowerLetters[CHOOSE i \in DOMAIN UpperLetters : UpperLetters[i] = c]]

is_lower(c) == c \in LowerSet
is_upper(c) == c \in UpperSet

\* str.upper() / str.lower(), one character
upper_char(c) == IF is_lower(c) THEN ToUpper[c] ELSE c
lower_char(c) == IF is_upper(c) THEN ToLower[c] ELSE c

upper(s) == [i \in DOMAIN s |-> upper_char(s[i])]
lower(s) == [i \in DOMAIN s |-> lower_char(s[i])]

\* the character class [A-Za-z0-9]
is_ascii_alnum(c) == is_lower(c) \/ is_upper(c) \/ c \in Digits

\* the character class \s (among the characters of the model)
is_whitespace(c) == c \in {" ", "\t"}

\* sep.join(parts)
RECURSIVE join(_, _)
join(parts, sep) ==
    IF Len(parts) = 0 THEN <<>>
    ELSE IF Len(parts) = 1 THEN parts[1]
    ELSE parts[1] \o sep \o join(Tail(parts), sep)

StringsUpTo(chars, n) == UNION { [1..k -> chars] : k \in 0..n }

(***************************************************************************)
(* standardize_vehicle_number                                              *)
(***************************************************************************)
\* re.sub(r'[^A-Za-z0-9 -]', '', s)
plate_clean(s) ==
    SelectSeq(s, LAMBDA c : is_ascii_alnum(c) \/ c = " " \/ c = "-")

\* re.split(r'[\s\-]+', s): the pieces between maximal runs of separators,
\* an empty piece before a leading and after a trailing run.
plate_sep(c) == is_whitespace(c) \/ c = "-"

RECURSIVE re_split_plate(_, _, _, _)
re_split_plate(s, i, cur, acc) ==
    IF i > Len(s) THEN Append(acc, cur)
    ELSE IF plate_sep(s[i])
         THEN IF i > 1 /\ plate_sep(s[i - 1])
              THEN re_split_plate(s, i + 1, cur, acc)
              ELSE re_split_plate(s, i + 1, <<>>, Append(acc, cur))
         ELSE re_split_plate(s, i + 1, Append(cur, s[i]), acc)

\* (a variant that keeps the empty pieces)
plate_parts_unfiltered(s) == re_split_plate(s, 1, <<>>, <<>>)

\* [blk for blk in re.split(...) if blk]
plate_parts(s) ==
    SelectSeq(re_split_plate(s, 1, <<>>, <<>>), LAMBDA blk : blk # <<>>)

standardize_vehicle_number(vehicle_number) ==
    IF vehicle_number = <<>> THEN <<>>
    ELSE join(plate_parts(upper(plate_clean(vehicle_number))), <<"-">>)

(***************************************************************************)
(* COLUMN_MAPPING and standardize_columns.  A column name is a string; the *)
(* characters outside ASCII are written "sup2" (superscript two) and "deg" *)
(* (the degree sign).                                                      *)
(***************************************************************************)
COLUMN_MAPPING ==
    <<
      [std_name |-> <<"s", "p", "e", "e", "d">>,
       variants |-> <<
         <<"S", "p", "e", "e", "d", " ", "(", "k", "m", "/", "h", ")">>,
         <<"V", "e", "h", "i", "c", "l", "e", " ", "S", "p", "e", "e", "d", " ", "S", "e", "n", "s", "o", "r", " ", "[", "k", "m", "/", "h", "]">>,
         <<"V", "E", "H", "I", "C", "L", "E", "_", "S", "P", "E", "E", "D">>,
         <<"V", "E", "H", "I", "C", "L", "E", "_", "S", "P", "E", "E", "D", " ", "(", ")">>,
         <<"S", "P", "E", "E", "D">>,
         <<"s", "p", "e", "e", "d">>,
         <<"g", "p", "s", "_", "s", "p", "e", "e", "d">>,
         <<"S", "p", "e", "e", "d", " ", "(", "G", "P", "S", ")", "(", "k", "m", "/", "h", ")">>,
         <<"S", "p", "e", "e", "d", " ", "(", "O", "B", "D", ")", "(", "k", "m", "/", "h", ")">>,
         <<"A", "v", "e", "r", "a", "g", "e", " ", "t", "r", "i", "p", " ", "s", "p", "e", "e", "d", "(", "w", "h", "i", "l", "s", "t", " ", "m", "o", "v", "i", "n", "g", " ", "o", "n", "l", "y", ")", "(", "k", "m", "/", "h", ")">>,
         <<"A", "v", "e", "r", "a", "g", "e", " ", "t", "r", "i", "p", " ", "s", "p", "e", "e", "d", "(", "w", "h", "i", "l", "s", "t", " ", "s", "t", "o", "p", "p", "e", "d", " ", "o", "r", " ", "m", "o", "v", "i", "n", "g", ")", "(", "k", "m", "/", "h", ")">>,
         <<"v", "e", "l", "o", "c", "i", "t", "y">>,
         <<"c", "a", "r", "_", "s", "p", "e", "e", "d">>
       >>],
      [std_name |-> <<"r", "p", "m">>,
       variants |-> <<
         <<"E", "n", "g", "i", "n", "e", " ", "R", "P", "M", " ", "[", "R", "P", "M", "]">>,
         <<"E", "N", "G", "I", "N", "E", "_", "R", "P", "M">>,
         <<"E", "N", "G", "I", "N", "E", "_", "R", "P", "M", " ", "(", ")">>,
         <<"E", "N", "G", "I", "N", "E", " ", "R", "P", "M", "(", "r", "p", "m", ")">>,
         <<"r", "p", "m">>,
         <<"M", "o", "t", "o", "r", " ", "s", "p", "e", "e", "d", " ", "(", "r", "p", "m", ")">>,
         <<"e", "n", "g", "i", "n", "e", "_", "r", "p", "m">>,
         <<"m", "o", "t", "o", "r", "_", "r", "p", "m">>,
         <<"r", "e", "v", "o", "l", "u", "t", "i", "o", "n", "s", "_", "p", "e", "r", "_", "m", "i", "n", "u", "t", "e">>
       >>],
      [std_name |-> <<"a", "c", "c", "e", "l", "e", "r", "a", "t", "i", "o", "n">>,
       variants |-> <<
         <<"A", "c", "c", "e", "l", "e", "r", "a", "t", "i", "o", "n", " ", "(", "m", "/", "s", "sup2", ")">>,
         <<"A", "c", "c", "e", "l", "e", "r", "a", "t", "i", "o", "n", " ", "S", "e", "n", "s", "o", "r", "(", "T", "o", "t", "a", "l", ")", "(", "g", ")">>,
         <<"a", "c", "c", "D", "a", "t", "a">>,
         <<"a", "c", "c", "e", "l", "e", "r", "a", "t", "i", "o", "n">>,
         <<"a", "c", "c", "e", "l">>,
         <<"l", "o", "n", "g", "i", "t", "u", "d", "i", "n", "a", "l", "_", "a", "c", "c", "e", "l", "e", "r", "a", "t", "i", "o", "n">>,
         <<"a", "c", "c", "_", "x">>,
         <<"a", "c", "c", "_", "y">>,
         <<"a", "c", "c", "_", "z">>
       >>],
      [std_name |-> <<"b", "r", "a", "k", "e">>,
       variants |-> <<
         <<"B", "r", "a", "k", "i", "n", "g", " ", "i", "n", "t", "e", "n", "s", "i", "t", "y", " ", "(", "%", ")">>,
         <<"B", "r", "a", "k", "i", "n", "g", " ", "i", "n", "t", "e", "n", "s", "i", "t", "y", " ", "(", ")">>,
         <<"R", "e", "g", "e", "n", " ", "b", "r", "a", "k", "i", "n", "g", " ", "l", "e", "v", "e", "l", " ", "(", "%", ")">>,
         <<"R", "e", "g", "e", "n", " ", "b", "r", "a", "k", "i", "n", "g", " ", "s", "t", "a", "t", "e">>,
         <<"b", "r", "a", "k", "e", "_", "p", "o", "s", "i", "t", "i", "o", "n">>,
         <<"b", "r", "a", "k", "e", "_", "p", "e", "d", "a", "l">>,
         <<"b", "r", "a", "k", "i", "n", "g", "_", "f", "o", "r", "c", "e">>
       >>],
      [std_name |-> <<"t", "h", "r", "o", "t", "t", "l", "e">>,
       variants |-> <<
         <<"T", "h", "r", "o", "t", "t", "l", "e", " ", "p", "o", "s", "i", "t", "i", "o", "n", " ", "(", "%", ")">>,
         <<"T", "H", "R", "O", "T", "T", "L", "E">>,
         <<"T", "H", "R", "O", "T", "T", "L", "E", " ", "(", ")">>,
         <<"A", "b", "s", "o", "l", "u", "t", "e", " ", "T", "h", "r", "o", "t", "t", "l", "e", " ", "P", "o", "s", "i", "t", "i", "o", "n", " ", "[", "%", "]">>,
         <<"T", "h", "r", "o", "t", "t", "l", "e", " ", "P", "o", "s", "i", "t", "i", "o", "n", "(", "M", "a", "n", "i", "f", "o", "l", "d", ")", "(", "%", ")">>,
         <<"A", "b", "s", "o", "l", "u", "t", "e", " ", "T", "h", "r", "o", "t", "t", "l", "e", " ", "P", "o", "s", "i", "t", "i", "o", "n", " ", "B", "(", "%", ")">>,
         <<"t", "P", "o", "s">>,
         <<"T", "H", "R", "O", "T", "T", "L", "E", "_", "P", "O", "S">>,
         <<"t", "h", "r", "o", "t", "t", "l", "e", "_", "p", "o", "s", "i", "t", "i", "o", "n">>,
         <<"a", "c", "c", "e", "l", "e", "r", "a", "t", "o", "r", "_", "p", "o", "s", "i", "t", "i", "o", "n">>,
         <<"g", "a", "s", "_", "p", "e", "d", "a", "l">>
       >>],
      [std_name |-> <<"e", "n", "g", "i", "n", "e", "_", "l", "o", "a", "d">>,
       variants |-> <<
         <<"E", "N", "G", "I", "N", "E", "_", "L", "O", "A", "D">>,
         <<"E", "N", "G", "I", "N", "E", "_", "L", "O", "A", "D", " ", "(", ")">>,
         <<"E", "n", "g", "i", "n", "e", " ", "L", "o", "a", "d", "(", "A", "b", "s", "o", "l", "u", "t", "e", ")", "(", "%", ")">>,
         <<"E", "n", "g", "i", "n", "e", " ", "L", "o", "a", "d", "(", "%", ")">>,
         <<"e", "L", "o", "a", "d">>,
         <<"c", "a", "l", "c", "u", "l", "a", "t", "e", "d", "_", "e", "n", "g", "i", "n", "e", "_", "l", "o", "a", "d">>,
         <<"e", "n", "g", "i", "n", "e", "_", "l", "o", "a", "d", "_", "p", "e", "r", "c", "e", "n", "t">>
       >>],
      [std_name |-> <<"c", "o", "o", "l", "a", "n", "t", "_", "t", "e", "m", "p">>,
       variants |-> <<
         <<"C", "O", "O", "L", "A", "N", "T", "_", "T", "E", "M", "P", "E", "R", "A", "T", "U", "R", "E">>,
         <<"C", "O", "O", "L", "A", "N", "T", "_", "T", "E", "M", "P", "E", "R", "A", "T", "U", "R", "E", " ", "(", ")">>,
         <<"E", "n", "g", "i", "n", "e", " ", "C", "o", "o", "l", "a", "n", "t", " ", "T", "e", "m", "p", "e", "r", "a", "t", "u", "r", "e", " ", "[", "deg", "C", "]">>,
         <<"E", "N", "G", "I", "N", "E", "_", "C", "O", "O", "L", "A", "N", "T", "_", "T", "E", "M", "P">>,
         <<"E", "n", "g", "i", "n", "e", " ", "C", "o", "o", "l", "a", "n", "t", " ", "T", "e", "m", "p", "e", "r", "a", "t", "u", "r", "e", "(", "deg", "C", ")">>,
         <<"c", "T", "e", "m", "p">>,
         <<"c", "o", "o", "l", "a", "n", "t", "_", "t", "e", "m", "p", "e", "r", "a", "t", "u", "r", "e">>,
         <<"e", "n", "g", "i", "n", "e", "_", "t", "e", "m", "p">>
       >>],
      [std_name |-> <<"b", "a", "t", "t", "e", "r", "y">>,
       variants |-> <<
         <<"B", "a", "t", "t", "e", "r", "y", " ", "S", "o", "C", " ", "(", "%", ")">>,
         <<"B", "a", "t", "t", "e", "r", "y", " ", "c", "u", "r", "r", "e", "n", "t", " ", "(", "A", ")">>,
         <<"b", "a", "t", "t", "e", "r", "y">>,
         <<"b", "a", "t", "t", "e", "r", "y", "_", "v", "o", "l", "t", "a", "g", "e">>,
         <<"s", "o", "c">>,
         <<"s", "t", "a", "t", "e", "_", "o", "f", "_", "c", "h", "a", "r", "g", "e">>
       >>],
      [std_name |-> <<"f", "u", "e", "l", "_", "l", "e", "v", "e", "l">>,
       variants |-> <<
         <<"F", "U", "E", "L", "_", "L", "E", "V", "E", "L">>,
         <<"F", "U", "E", "L", "_", "L", "E", "V", "E", "L", " ", "(", ")">>,
         <<"F", "U", "E", "L", "_", "T", "A", "N", "K">>,
         <<"F", "u", "e", "l", " ", "R", "e", "m", "a", "i", "n", "i", "n", "g", " ", "(", "C", "a", "l", "c", "u", "l", "a", "t", "e", "d", " ", "f", "r", "o", "m", " ", "v", "e", "h", "i", "c", "l", "e", " ", "p", "r", "o", "f", "i", "l", "e", ")", "(", "%", ")">>,
         <<"f", "u", "e", "l", "_", "t", "a", "n", "k", "_", "l", "e", "v", "e", "l">>,
         <<"f", "u", "e", "l", "_", "p", "e", "r", "c", "e", "n", "t", "a", "g", "e">>
       >>],
      [std_name |-> <<"t", "r", "i", "p", "_", "d", "i", "s", "t", "a", "n", "c", "e">>,
       variants |-> <<
         <<"D", "i", "s", "t", "a", "n", "c", "e", " ", "t", "r", "a", "v", "e", "l", "e", "d", " ", "(", "k", "m", ")">>,
         <<"T", "r", "i", "p", " ", "d", "i", "s", "t", "a", "n", "c", "e", " ", "(", "k", "m", ")">>,
         <<"T", "r", "i", "p", " ", "D", "i", "s", "t", "a", "n", "c", "e", "(", "k", "m", ")">>,
         <<"T", "r", "i", "p", " ", "D", "i", "s", "t", "a", "n", "c", "e">>,
         <<"d", "i", "s", "t", "a", "n", "c", "e">>,
         <<"o", "d", "o", "m", "e", "t", "e", "r">>,
         <<"t", "o", "t", "a", "l", "_", "d", "i", "s", "t", "a", "n", "c", "e">>
       >>],
      [std_name |-> <<"t", "r", "i", "p", "_", "t", "i", "m", "e">>,
       variants |-> <<
         <<"T", "r", "i", "p", " ", "t", "i", "m", "e", " ", "(", "m", "i", "n", ")">>,
         <<"T", "r", "i", "p", " ", "T", "i", "m", "e", "(", "S", "i", "n", "c", "e", " ", "j", "o", "u", "r", "n", "e", "y", " ", "s", "t", "a", "r", "t", ")", "(", "s", ")">>,
         <<"T", "I", "M", "E">>,
         <<"d", "u", "r", "a", "t", "i", "o", "n">>,
         <<"e", "l", "a", "p", "s", "e", "d", "_", "t", "i", "m", "e">>
       >>],
      [std_name |-> <<"l", "a", "t", "i", "t", "u", "d", "e">>,
       variants |-> <<
         <<"L", "A", "T", "I", "T", "U", "D", "E">>,
         <<"L", "A", "T", "I", "T", "U", "D", "E", " ", "(", ")">>,
         <<"G", "P", "S", " ", "L", "a", "t", "i", "t", "u", "d", "e", "(", "deg", ")">>,
         <<"L", "a", "t", "i", "t", "u", "d", "e">>,
         <<"l", "a", "t">>,
         <<"g", "p", "s", "_", "l", "a", "t">>
       >>],
      [std_name |-> <<"l", "o", "n", "g", "i", "t", "u", "d", "e">>,
       variants |-> <<
         <<"L", "O", "N", "G", "I", "T", "U", "D", "E">>,
         <<"L", "O", "N", "G", "I", "T", "U", "D", "E", " ", "(", ")">>,
         <<"G", "P", "S", " ", "L", "o", "n", "g", "i", "t", "u", "d", "e", "(", "deg", ")">>,
         <<"L", "o", "n", "g", "i", "t", "u", "d", "e">>,
         <<"l", "o", "n">>,
         <<"l", "n", "g">>,
         <<"g", "p", "s", "_", "l", "o", "n">>
       >>],
      [std_name |-> <<"d", "r", "i", "v", "e", "r", "_", "r", "a", "t", "i", "n", "g">>,
       variants |-> <<
         <<"D", "r", "i", "v", "e", "r", " ", "B", "e", "h", "a", "v", "i", "o", "r", " ", "r", "a", "t", "i", "n", "g">>,
         <<"d", "r", "i", "v", "i", "n", "g", "_", "s", "c", "o", "r", "e">>,
         <<"s", "a", "f", "e", "t", "y", "_", "s", "c", "o", "r", "e">>,
         <<"p", "e", "r", "f", "o", "r", "m", "a", "n", "c", "e", "_", "r", "a", "t", "i", "n", "g">>
       >>],
      [std_name |-> <<"u", "s", "e", "r", "_", "i", "d">>,
       variants |-> <<
         <<"U", "s", "e", "r", " ", "I", "D">>,
         <<"u", "s", "e", "r", "_", "i", "d">>,
         <<"d", "r", "i", "v", "e", "r", "_", "i", "d">>,
         <<"D", "r", "i", "v", "e", "r", " ", "I", "D">>,
         <<"U", "S", "E", "R", "_", "I", "D">>,
         <<"D", "R", "I", "V", "E", "R", "_", "I", "D">>,
         <<"U", "s", "e", "r", "I", "d">>,
         <<"D", "r", "i", "v", "e", "r", "I", "d">>,
         <<"U", "s", "e", "r">>,
         <<"D", "r", "i", "v", "e", "r">>,
         <<"u", "s", "e", "r">>,
         <<"d", "r", "i", "v", "e", "r">>
       >>],
      [std_name |-> <<"t", "r", "i", "p", "_", "i", "d">>,
       variants |-> <<
         <<"T", "r", "i", "p", " ", "I", "D">>,
         <<"t", "r", "i", "p", "_", "i", "d">>,
         <<"T", "R", "I", "P", "_", "I", "D">>,
         <<"T", "r", "i", "p", "I", "d">>,
         <<"T", "r", "i", "p">>,
         <<"t", "r", "i", "p">>,
         <<"j", "o", "u", "r", "n", "e", "y", "_", "i", "d">>
       >>],
      [std_name |-> <<"t", "i", "m", "e", "s", "t", "a", "m", "p">>,
       variants |-> <<
         <<"T", "i", "m", "e", "s", "t", "a", "m", "p">>,
         <<"t", "i", "m", "e", "s", "t", "a", "m", "p">>,
         <<"T", "I", "M", "E", "S", "T", "A", "M", "P">>,
         <<"T", "i", "m", "e">>,
         <<"t", "i", "m", "e">>,
         <<"T", "I", "M", "E">>,
         <<"D", "a", "t", "e", "T", "i", "m", "e">>,
         <<"d", "a", "t", "e", "t", "i", "m", "e">>,
         <<"D", "A", "T", "E", "T", "I", "M", "E">>,
         <<"D", "a", "t", "e", " ", "T", "i", "m", "e">>,
         <<"d", "a", "t", "e", "_", "t", "i", "m", "e">>,
         <<"r", "e", "c", "o", "r", "d", "e", "d", "_", "a", "t">>
       >>],
      [std_name |-> <<"s", "t", "e", "e", "r", "i", "n", "g", "_", "a", "n", "g", "l", "e">>,
       variants |-> <<
         <<"S", "t", "e", "e", "r", "i", "n", "g", " ", "A", "n", "g", "l", "e">>,
         <<"s", "t", "e", "e", "r", "i", "n", "g", "_", "a", "n", "g", "l", "e">>,
         <<"w", "h", "e", "e", "l", "_", "a", "n", "g", "l", "e">>,
         <<"s", "t", "e", "e", "r", "i", "n", "g", "_", "p", "o", "s", "i", "t", "i", "o", "n">>
       >>],
      [std_name |-> <<"a", "n", "g", "u", "l", "a", "r", "_", "v", "e", "l", "o", "c", "i", "t", "y">>,
       variants |-> <<
         <<"A", "n", "g", "u", "l", "a", "r", " ", "V", "e", "l", "o", "c", "i", "t", "y">>,
         <<"a", "n", "g", "u", "l", "a", "r", "_", "v", "e", "l", "o", "c", "i", "t", "y">>,
         <<"y", "a", "w", "_", "r", "a", "t", "e">>,
         <<"r", "o", "t", "a", "t", "i", "o", "n", "_", "r", "a", "t", "e">>
       >>],
      [std_name |-> <<"g", "e", "a", "r", "_", "p", "o", "s", "i", "t", "i", "o", "n">>,
       variants |-> <<
         <<"G", "e", "a", "r", " ", "P", "o", "s", "i", "t", "i", "o", "n">>,
         <<"g", "e", "a", "r", "_", "p", "o", "s", "i", "t", "i", "o", "n">>,
         <<"g", "e", "a", "r">>,
         <<"t", "r", "a", "n", "s", "m", "i", "s", "s", "i", "o", "n", "_", "g", "e", "a", "r">>
       >>],
      [std_name |-> <<"t", "i", "r", "e", "_", "p", "r", "e", "s", "s", "u", "r", "e">>,
       variants |-> <<
         <<"T", "i", "r", "e", " ", "P", "r", "e", "s", "s", "u", "r", "e">>,
         <<"t", "i", "r", "e", "_", "p", "r", "e", "s", "s", "u", "r", "e">>,
         <<"w", "h", "e", "e", "l", "_", "p", "r", "e", "s", "s", "u", "r", "e">>,
         <<"t", "y", "r", "e", "_", "p", "r", "e", "s", "s", "u", "r", "e">>
       >>],
      [std_name |-> <<"b", "r", "a", "k", "e", "_", "p", "r", "e", "s", "s", "u", "r", "e">>,
       variants |-> <<
         <<"B", "r", "a", "k", "e", " ", "P", "r", "e", "s", "s", "u", "r", "e">>,
         <<"b", "r", "a", "k", "e", "_", "p", "r", "e", "s", "s", "u", "r", "e">>,
         <<"b", "r", "a", "k", "i", "n", "g", "_", "p", "r", "e", "s", "s", "u", "r", "e">>,
         <<"b", "r", "a", "k", "e", "_", "f", "o", "r", "c", "e">>
       >>],
      [std_name |-> <<"v", "e", "h", "i", "c", "l", "e", "_", "n", "u", "m", "b", "e", "r">>,
       variants |-> <<
         <<"V", "e", "h", "i", "c", "l", "e", " ", "N", "u", "m", "b", "e", "r">>,
         <<"v", "e", "h", "i", "c", "l", "e", "_", "n", "u", "m", "b", "e", "r">>,
         <<"V", "e", "h", "i", "c", "l", "e", "N", "u", "m", "b", "e", "r">>,
         <<"V", "E", "H", "I", "C", "L", "E", "_", "N", "U", "M", "B", "E", "R">>,
         <<"L", "i", "c", "e", "n", "s", "e", " ", "P", "l", "a", "t", "e">>,
         <<"l", "i", "c", "e", "n", "s", "e", "_", "p", "l", "a", "t", "e">>,
         <<"L", "i", "c", "e", "n", "s", "e", "P", "l", "a", "t", "e">>,
         <<"L", "I", "C", "E", "N", "S", "E", "_", "P", "L", "A", "T", "E">>,
         <<"R", "e", "g", "i", "s", "t", "r", "a", "t", "i", "o", "n", " ", "N", "u", "m", "b", "e", "r">>,
         <<"r", "e", "g", "i", "s", "t", "r", "a", "t", "i", "o", "n", "_", "n", "u", "m", "b", "e", "r">>,
         <<"R", "e", "g", "N", "u", "m", "b", "e", "r">>,
         <<"r", "e", "g", "_", "n", "u", "m", "b", "e", "r">>,
         <<"P", "l", "a", "t", "e", " ", "N", "u", "m", "b", "e", "r">>,
         <<"p", "l", "a", "t", "e", "_", "n", "u", "m", "b", "e", "r">>,
         <<"P", "l", "a", "t", "e", "N", "u", "m", "b", "e", "r">>,
         <<"P", "L", "A", "T", "E", "_", "N", "U", "M", "B", "E", "R">>,
         <<"C", "a", "r", " ", "N", "u", "m", "b", "e", "r">>,
         <<"c", "a", "r", "_", "n", "u", "m", "b", "e", "r">>,
         <<"C", "a", "r", "N", "u", "m", "b", "e", "r">>,
         <<"C", "A", "R", "_", "N", "U", "M", "B", "E", "R">>
       >>]
    >>

\* str.isalnum(), one character: superscript two is a digit to Python
is_alnum(c) == is_ascii_alnum(c) \/ c = "sup2"

\* normalize(s): ''.join(e for e in s.lower() if e.isalnum())
normalize(s) == SelectSeq(lower(s), is_alnum)

\* the mapping with every variant normalized (line 182), computed once
NormalizedMapping ==
    [f \in DOMAIN COLUMN_MAPPING |->
        [v \in DOMAIN COLUMN_MAPPING[f].variants |-> normalize(COLUMN_MAPPING[f].variants[v])]]

\* b occurs inside a
contains_string(a, b) ==
    \E k \in 0..(Len(a) - Len(b)) : \A j \in 1..Len(b) : a[k + j] = b[j]

\* (a variant that also matches a column whose key occurs inside the variant's)
columns_norm_index_fuzzy(keys, n) ==
    LET at == { i \in DOMAIN keys : keys[i] # <<>> /\ contains_string(n, keys[i]) }
    IN  IF at = {} THEN 0 ELSE CHOOSE i \in at : \A j \in at : j <= i

\* columns_norm = {normalize(col): col for col in df.columns}, looked up at n.
\* keys[i] is normalize(columns[i]); the result is the position of the column
\* filed under n (a later column replaces an earlier one with the same key),
\* 0 when n is not a key.
columns_norm_index(keys, n) ==
    LET at == { i \in DOMAIN keys : keys[i] = n }
    IN  IF at = {} THEN 0 ELSE CHOOSE i \in at : \A j \in at : j <= i

\* the inner loop for one field: the first variant that matches, 0 when none
first_matching_variant(f, keys) ==
    LET hits == { v \in DOMAIN NormalizedMapping[f] :
                     columns_norm_index(keys, NormalizedMapping[f][v]) # 0 }
    IN  IF hits = {} THEN 0 ELSE CHOOSE v \in hits : \A w \in hits : v <= w

\* the outer loop: the assignments renamed[original_col_name] = std_name, in order
RECURSIVE renamed_assignments(_, _, _, _)
renamed_assignments(columns, keys, f, acc) ==
    IF f > Len(COLUMN_MAPPING) THEN acc
    ELSE LET v == first_matching_variant(f, keys)
         IN  IF v = 0 THEN renamed_assignments(columns, keys, f + 1, acc)
             ELSE renamed_assignments(columns, keys, f + 1,
                      Append(acc,
                             [original |-> columns[columns_norm_index(keys, NormalizedMapping[f][v])],
                              std_name |-> COLUMN_MAPPING[f].std_name]))

\* df.rename(columns=renamed): the last assignment for a name wins
rename_columns(columns, assignments) ==
    [i \in DOMAIN columns |->
        LET at == { k \in DOMAIN assignments : assignments[k].original = columns[i] }
        IN  IF at = {} THEN columns[i]
            ELSE assignments[CHOOSE k \in at : \A j \in at : j <= k].std_name]

standardize_columns(columns) ==
    LET keys == [i \in DOMAIN columns |-> normalize(columns[i])]
    IN  rename_columns(columns, renamed_assignments(columns, keys, 1, <<>>))

CanonicalFields == [f \in DOMAIN COLUMN_MAPPING |-> COLUMN_MAPPING[f].std_name]

(***************************************************************************)
(* Cells and columns.  A cell is what pd.to_numeric / pd.to_datetime with  *)
(* errors='coerce' make of the raw text: a number, or NaN / NaT.           *)
(* Timestamps are counted in minutes.  Row i of the code (0-based) is      *)
(* element i+1 of a column.                                                *)
(***************************************************************************)
Num(v) == [num |-> TRUE, val |-> v]
NaN == [num |-> FALSE, val |-> 0]

isnull(c) == ~c.num

fillna(col, v) == [i \in DOMAIN col |-> IF isnull(col[i]) THEN Num(v) ELSE col[i]]

\* Series.diff(): NaN in the first row and wherever an operand is NaN.
diff(col) ==
    [i \in DOMAIN col |->
        IF i = 1 \/ isnull(col[i]) \/ isnull(col[i - 1])
        THEN NaN
        ELSE Num(col[i].val - col[i - 1].val)]

\* mask[mask].index.tolist(): the 0-based positions where mask is true, ascending.
index_tolist(mask) ==
    SelectSeq([i \in 1..Len(mask) |-> i - 1], LAMBDA i : mask[i + 1])

\* safe_series(df, colname) is not None
safe_series(d, colname) == colname \in d.columns /\ d.n > 0

(***************************************************************************)
(* detect_trip_boundaries.  Each method runs the same loop shape: walk the *)
(* candidate indices, close a segment where the guard holds, then add the  *)
(* final trip.  The loop state is [tb, cs] = (trip_boundaries,             *)
(* current_start); it is carried from one method into the next.            *)
(***************************************************************************)
\* (a variant that closes the segment on the boundary row itself)
RECURSIVE split_loop_inclusive(_, _, _)
split_loop_inclusive(idxs, k, st) ==
    IF k > Len(idxs) THEN st
    ELSE LET idx == idxs[k] IN
         IF idx > st.cs
         THEN split_loop_inclusive(idxs, k + 1, [tb |-> Append(st.tb, <<st.cs, idx>>), cs |-> idx])
         ELSE split_loop_inclusive(idxs, k + 1, st)

RECURSIVE split_loop(_, _, _)
split_loop(idxs, k, st) ==
    IF k > Len(idxs) THEN st
    ELSE LET idx == idxs[k] IN
         IF idx > st.cs
         THEN split_loop(idxs, k + 1, [tb |-> Append(st.tb, <<st.cs, idx - 1>>), cs |-> idx])
         ELSE split_loop(idxs, k + 1, st)

add_final_trip(st, n) ==
    IF st.cs < n - 1
    THEN [tb |-> Append(st.tb, <<st.cs, n - 1>>), cs |-> st.cs]
    ELSE st

\* Method 1 applies when the column exists and parses for at least one row.
timestamp_usable(d) ==
    /\ safe_series(d, "timestamp")
    /\ \E i \in 1..d.n : ~isnull(d.timestamp[i])

timestamp_method(d, st) ==
    LET time_diffs == diff(d.timestamp)
        large_gaps == [i \in 1..d.n |->
                          /\ ~isnull(time_diffs[i])
                          /\ time_diffs[i].val > TIMESTAMP_GAP_THRESHOLD_MINUTES]
        gap_indices == index_tolist(large_gaps)
    IN  add_final_trip(split_loop(gap_indices, 1, st), d.n)

RECURSIVE zero_loop(_, _, _, _)
zero_loop(zero_starts, zero_ends, i, st) ==
    IF i > Len(zero_starts) THEN st
    ELSE IF i <= Len(zero_ends)
         THEN LET start == zero_starts[i]
                  end == zero_ends[i]
                  stop_duration == end - start
              IN  IF stop_duration > ZERO_SPEED_THRESHOLD_POINTS /\ start > st.cs
                  THEN zero_loop(zero_starts, zero_ends, i + 1,
                                 [tb |-> Append(st.tb, <<st.cs, start - 1>>), cs |-> end + 1])
                  ELSE zero_loop(zero_starts, zero_ends, i + 1, st)
         ELSE zero_loop(zero_starts, zero_ends, i + 1, st)

speed_method(d, st) ==
    LET speed_num == fillna(d.speed, 0)
        zero_speed == [i \in 1..d.n |-> IF speed_num[i].val <= 1 THEN 1 ELSE 0]
        speed_changes == [i \in 1..d.n |-> IF i = 1 THEN 0 ELSE zero_speed[i] - zero_speed[i - 1]]
        zero_starts == index_tolist([i \in 1..d.n |-> speed_changes[i] = 1])
        ends0 == index_tolist([i \in 1..d.n |-> speed_changes[i] = -1])
        zero_ends == IF Len(zero_starts) > Len(ends0) THEN Append(ends0, d.n - 1) ELSE ends0
    IN  add_final_trip(zero_loop(zero_starts, zero_ends, 1, st), d.n)

distance_method(d, st) ==
    LET distance_num == fillna(d.trip_distance, 0)
        dd == diff(distance_num)
        distance_resets == [i \in 1..d.n |-> ~isnull(dd[i]) /\ dd[i].val < -1]
        reset_indices == index_tolist(distance_resets)
    IN  add_final_trip(split_loop(reset_indices, 1, st), d.n)

fallback_trip_off_by_one(d) == <<<<0, d.n>>>>

\* Default: the entire file is one trip.
fallback_trip(d) == <<<<0, d.n - 1>>>>

\* The whole function: [tb |-> the list returned, by |-> the return statement taken].
detect(d) ==
    IF d.n = 0 THEN [tb |-> <<>>, by |-> "empty"]
    ELSE
    LET st0 == [tb |-> <<>>, cs |-> 0]
        st1 == IF timestamp_usable(d) THEN timestamp_method(d, st0) ELSE st0
    IN  IF timestamp_usable(d) /\ st1.tb # <<>> THEN [tb |-> st1.tb, by |-> "timestamp"]
        ELSE
        LET st2 == IF safe_series(d, "speed") THEN speed_method(d, st1) ELSE st1
        IN  IF safe_series(d, "speed") /\ st2.tb # <<>> THEN [tb |-> st2.tb, by |-> "speed"]
            ELSE
            LET st3 == IF safe_series(d, "trip_distance") THEN distance_method(d, st2) ELSE st2
            IN  IF safe_series(d, "trip_distance") /\ st3.tb # <<>>
                THEN [tb |-> st3.tb, by |-> "distance"]
                ELSE [tb |-> fallback_trip(d), by |-> "fallback"]

detect_trip_boundaries(d) == detect(d).tb

(***************************************************************************)
(* Input tables.  A table is a sequence of at most MaxBlocks blocks of     *)
(* rows; the rows of a block share their speed and distance reading, and   *)
(* the block's first row follows the previous row after `gap` minutes (or  *)
(* carries an unparseable timestamp).  Block lengths straddle the          *)
(* zero-speed threshold.                                                   *)
(***************************************************************************)
Block(len, speed, gap, dist) ==
    [len |-> len, speed |-> speed, gap |-> gap, dist |-> dist]

Blocks ==
    { Block(4, Num(40), Num(1), Num(5)),
      Block(1, Num(40), Num(TIMESTAMP_GAP_THRESHOLD_MINUTES + 15), Num(5)),
      Block(ZERO_SPEED_THRESHOLD_POINTS + 1, Num(0), Num(1), Num(5)),
      Block(ZERO_SPEED_THRESHOLD_POINTS + 2, Num(1), Num(1), Num(5)),
      Block(4, Num(2), Num(TIMESTAMP_GAP_THRESHOLD_MINUTES), Num(4)),
      Block(4, Num(40), Num(1), Num(0)),
      Block(1, NaN, NaN, NaN),
      Block(4, Num(0), Num(TIMESTAMP_GAP_THRESHOLD_MINUTES + 15), Num(0)) }

BlockSeqs == UNION { [1..k -> Blocks] : k \in 0..MaxBlocks }

\* The rows of one block, its first row at time `first` (NaT when the gap is NaN).
block_rows(b, first) ==
    [timestamp |-> [j \in 1..b.len |->
                       IF j = 1 /\ isnull(b.gap) THEN NaN ELSE Num(first + j - 1)],
     speed |-> [j \in 1..b.len |-> b.speed],
     trip_distance |-> [j \in 1..b.len |-> b.dist]]

RECURSIVE build_rows(_, _, _, _)
build_rows(bs, k, last, acc) ==
    IF k > Len(bs) THEN acc
    ELSE LET b == bs[k]
             first == IF k = 1 THEN 0
                      ELSE last + (IF isnull(b.gap) THEN 1 ELSE b.gap.val)
             r == block_rows(b, first)
         IN  build_rows(bs, k + 1, first + b.len - 1,
                        [timestamp |-> acc.timestamp \o r.timestamp,
                         speed |-> acc.speed \o r.speed,
                         trip_distance |-> acc.trip_distance \o r.trip_distance])

DetectColumns == {"timestamp", "speed", "trip_distance"}

Table(bs, columns) ==
    LET r == build_rows(bs, 1, 0, [timestamp |-> <<>>, speed |-> <<>>, trip_distance |-> <<>>])
    IN  [n |-> Len(r.speed), columns |-> columns,
         timestamp |-> IF "timestamp" \in columns THEN r.timestamp ELSE <<>>,
         speed |-> IF "speed" \in columns THEN r.speed ELSE <<>>,
         trip_distance |-> IF "trip_distance" \in columns THEN r.trip_distance ELSE <<>>]

Tables == { Table(bs, columns) : bs \in BlockSeqs, columns \in SUBSET DetectColumns }

(***************************************************************************)
(* The users table (db.py init_db) and ensure_user_exists.                 *)
(***************************************************************************)
\* users: id PRIMARY KEY, username UNIQUE, vehicle_number UNIQUE
insert_user_ok(us, row) ==
    \A u \in us :
        /\ u.id # row.id
        /\ u.username # row.username
        /\ u.vehicle_number # row.vehicle_number

\* INSERT INTO users inside try/except: an IntegrityError is logged and swallowed
try_insert_user(us, row) == IF insert_user_ok(us, row) THEN us \cup {row} ELSE us

\* SELECT id FROM users WHERE id = ?
select_user(us, user_id) == { u \in us : u.id = user_id }

DecimalDigits == <<"0", "1", "2", "3", "4", "5", "6", "7", "8", "9">>

\* str(n) for n >= 0
RECURSIVE str_int(_)
str_int(n) ==
    IF n < 10 THEN <<DecimalDigits[n + 1]>>
    ELSE str_int(n \div 10) \o <<DecimalDigits[(n % 10) + 1]>>

\* re.sub(r'[^A-Za-z0-9]', '', vehicle_number).lower()
username_from_vehicle(vehicle_number) == lower(SelectSeq(vehicle_number, is_ascii_alnum))

\* f'generated_user_{user_id}'
generated_username(user_id) ==
    <<"g", "e", "n", "e", "r", "a", "t", "e", "d", "_", "u", "s", "e", "r", "_">>
        \o str_int(user_id)

first_row(user_id, vehicle_number) ==
    [id |-> user_id,
     username |-> username_from_vehicle(standardize_vehicle_number(vehicle_number)),
     vehicle_number |-> standardize_vehicle_number(vehicle_number)]

second_row(user_id, vehicle_number) ==
    [id |-> user_id,
     username |-> generated_username(user_id),
     vehicle_number |-> standardize_vehicle_number(vehicle_number)]

\* one lookup-then-insert block of ensure_user_exists
ensure_block(us, row) == IF select_user(us, row.id) = {} THEN try_insert_user(us, row) ELSE us

\* the function runs both of its blocks, one after the other
ensure_user_exists(us, user_id, vehicle_number) ==
    ensure_block(ensure_block(us, first_row(user_id, vehicle_number)),
                 second_row(user_id, vehicle_number))

(***************************************************************************)
(* process_file_with_error_handling, up to its segment loop.               *)
(***************************************************************************)
encodings_to_try == <<"utf-8", "latin-1", "cp1252", "iso-8859-1">>

\* the load loop: "loaded", "none" (df stays None) or "raise"
RECURSIVE load_file(_, _)
load_file(read, k) ==
    IF k > Len(encodings_to_try) THEN "none"
    ELSE IF read[k] = "ok" THEN "loaded"
    ELSE IF read[k] = "UnicodeDecodeError" THEN load_file(read, k + 1)
    ELSE IF k = Len(encodings_to_try) THEN "raise"
    ELSE load_file(read, k + 1)

file_error(filename, reason) == [name |-> [file |-> filename, trip |-> 0], reason |-> reason]
trip_error(filename, trip_index, reason) ==
    [name |-> [file |-> filename, trip |-> trip_index + 1], reason |-> reason]

NoFile ==
    [filename |-> <<>>, raised |-> FALSE, user_id |-> 0, vehicle_number |-> <<>>,
     trip_boundaries |-> <<>>, trip_index |-> 0, processed_trips |-> <<>>, errors |-> <<>>]

returned(filename, processed, errors) ==
    [NoFile EXCEPT !.filename = filename, !.processed_trips = processed, !.errors = errors]

\* the handler of the function's outer try
fatal_swallowed(filename) == returned(filename, <<>>, <<file_error(filename, "Fatal processing error")>>)

Moving(len) == Block(len, Num(40), Num(1), Num(5))
AfterGap(len) == Block(len, Num(40), Num(TIMESTAMP_GAP_THRESHOLD_MINUTES + 15), Num(5))

\* tables of one short segment, of one long segment, of a short and a long one,
\* of two long ones
ShortTable == Table(<<Moving(MIN_SEGMENT_ROWS - 1)>>, {"timestamp", "speed"})
LongTable == Table(<<Moving(MIN_SEGMENT_ROWS)>>, {"timestamp", "speed"})
MixedTable ==
    Table(<<Moving(MIN_SEGMENT_ROWS - 1), AfterGap(MIN_SEGMENT_ROWS)>>, {"timestamp", "speed"})
TwoLongTable ==
    Table(<<Moving(MIN_SEGMENT_ROWS), AfterGap(MIN_SEGMENT_ROWS)>>, {"timestamp", "speed"})
BatchTables == {ShortTable, LongTable, MixedTable, TwoLongTable}

extract_vehicle_number(raw_vehicle_number) == standardize_vehicle_number(raw_vehicle_number)

\* the locals of the function when it reaches the segment loop, or when it returns early
open_file(filename, f) ==
    LET loaded == load_file(f.read, 1)
        vehicle_number == standardize_vehicle_number(extract_vehicle_number(f.vehicle_number))
    IN  IF loaded = "raise" THEN fatal_swallowed(filename)
        ELSE IF loaded = "none"
        THEN returned(filename, <<>>, <<file_error(filename, "Failed to load file with any encoding")>>)
        ELSE IF f.shape = "empty"
        THEN returned(filename, <<>>, <<file_error(filename, "File is empty")>>)
        ELSE IF f.shape = "few_columns"
        THEN returned(filename, <<>>, <<file_error(filename, "Too few columns")>>)
        ELSE IF f.shape = "unreadable_cells" THEN fatal_swallowed(filename)
        ELSE [NoFile EXCEPT !.filename = filename,
                            !.user_id = f.user_id,
                            !.vehicle_number = vehicle_number,
                            !.trip_boundaries = detect_trip_boundaries(f.df)]

\* whether the function calls ensure_user_exists for this file
reaches_identity(f) == load_file(f.read, 1) = "loaded" /\ f.shape = "table"

\* a loop that leaves the file at its first segment
after_segment_break(c) == "account"

\* position after the current segment: the next segment, or the function's return
after_segment(c) == IF c.trip_index + 1 < Len(c.trip_boundaries) THEN "segment" ELSE "account"

\* "; ".join([error for _, error in file_errors]) or "No valid trips found"
error_summary(file_errors) ==
    LET joined == join([k \in DOMAIN file_errors |-> <<file_errors[k].reason>>], <<"; ">>)
    IN  IF joined = <<>> THEN <<"No valid trips found">> ELSE joined

\* the position of the loops after a file: the folder's next file, or the next folder
next_file_break(fs, i, j) == [bpc |-> "folder", folder_idx |-> i + 1, file_idx |-> 0]

next_file(fs, i, j) ==
    IF j < fs[i].nfiles
    THEN [bpc |-> "file", folder_idx |-> i, file_idx |-> j + 1]
    ELSE [bpc |-> "folder", folder_idx |-> i + 1, file_idx |-> 0]

\* a summary that reports the trips persisted as the files processed
summary_of_trips(found, processed, skipped, total) ==
    [total_files |-> found,
     processed_files |-> total,
     skipped_files |-> Len(skipped),
     total_trips |-> total,
     success_rate |-> IF found > 0 THEN [num |-> total * 100, den |-> found]
                      ELSE [num |-> 0, den |-> 1]]

\* the dictionary process_all_files returns; success_rate is kept as the exact quotient
summary_of(found, processed, skipped, total) ==
    [total_files |-> found,
     processed_files |-> Len(processed),
     skipped_files |-> Len(skipped),
     total_trips |-> total,
     success_rate |-> IF found > 0 THEN [num |-> Len(processed) * 100, den |-> found]
                      ELSE [num |-> 0, den |-> 1]]

NoSummary == [total_files |-> -1]
NoTrip == [user_id |-> 0, name |-> <<>>]

(***************************************************************************)
(* SpecDetect: a table is drawn, detect_trip_boundaries is applied to it.  *)
(***************************************************************************)
IdleDetect ==
    /\ df = Table(<<>>, {})
    /\ trip_boundaries = <<>>
    /\ strategy = "none"
    /\ dpc = "idle"

IdlePlate ==
    /\ vn_in = <<>>
    /\ vn_out = <<>>
    /\ vn_twice = <<>>
    /\ ppc = "idle"

IdleCols ==
    /\ cols_in = <<>>
    /\ cols_once = <<>>
    /\ cols_twice = <<>>
    /\ cpc = "idle"

IdleLoops ==
    /\ dry_run = FALSE
    /\ folders = <<>>
    /\ folder_idx = 0
    /\ file_idx = 0
    /\ bpc = "idle"
    /\ file_locals = NoFile
    /\ trip_data = NoTrip
    /\ processed_files = <<>>
    /\ skipped_files = <<>>
    /\ total_trips_processed = 0
    /\ total_files_found = 0
    /\ trips = <<>>
    /\ visited = <<>>
    /\ trip_error_log = <<>>
    /\ summary = NoSummary

IdleBatch == IdleLoops /\ users = {}

Workers == {1, 2}

NoCall ==
    [pc |-> "idle", user_id |-> 0, vehicle_number |-> <<>>, calls |-> 0,
     existed |-> FALSE, wrote |-> FALSE]

IdleRace == workers = [w \in Workers |-> NoCall]

Executions == {1, 2}
Runs == {1, 2}

NoRun ==
    [execution |-> 0, field_name |-> "", df_segment |-> [length |-> 0, first_index |-> 0, speed |-> "absent"],
     seed_value |-> 0, series |-> <<>>, returned |-> FALSE]

IdleSynth ==
    /\ str_hashes = [e \in Executions |-> {}]
    /\ runs = [r \in Runs |-> NoRun]

NoValidation == [pc |-> "idle", given |-> <<>>, trip_data |-> <<>>, is_valid |-> FALSE, errors |-> <<>>]

IdleValidate == validation = NoValidation

NoIdentity ==
    [filename |-> <<>>, df |-> [user_id |-> <<>>, vehicle_number |-> <<>>],
     random_state |-> [seed |-> 0, pos |-> 0], np_random_seed |-> -1, drawn |-> 0,
     user_ids |-> <<>>, vehicle_numbers |-> <<>>]

IdleIdentity == identity = NoIdentity

NoIngest ==
    [pc |-> "idle", filename |-> <<>>, df |-> [n |-> 0, columns |-> {}],
     random_state |-> [seed |-> 0, pos |-> 0], user_id |-> 0, vehicle_number |-> <<>>,
     by |-> "", trip_boundaries |-> <<>>, trip_index |-> 0, records |-> <<>>,
     trips |-> <<>>, users |-> {}, processed_trips |-> <<>>, errors |-> <<>>]

IdleIngest == ingest = NoIngest

NoExtraction ==
    [pc |-> "idle", df_segment |-> [n |-> 0, columns |-> {}], user_id |-> 0, trip_index |-> 0,
     str_hash |-> 0, random_state |-> [seed |-> 0, pos |-> 0], drawn |-> 0, others |-> 0,
     records |-> <<>>]

IdleExtract == extraction = NoExtraction

NoSynthesis ==
    [pc |-> "idle", field_name |-> "", df_segment |-> [n |-> 0, columns |-> {}],
     uniform |-> 0, normal |-> <<>>, returned |-> <<>>]

IdleSynthesis == synthesis = NoSynthesis

IdleLast == IdleExtract /\ IdleSynthesis

IdleMore == IdleSynth /\ IdleValidate /\ IdleIdentity /\ IdleIngest /\ IdleLast

InitDetect ==
    /\ df \in Tables
    /\ trip_boundaries = <<>>
    /\ strategy = "none"
    /\ dpc = "input"
    /\ IdlePlate
    /\ IdleCols
    /\ IdleBatch
    /\ IdleRace
    /\ IdleMore

Detect ==
    /\ dpc = "input"
    /\ trip_boundaries' = detect_trip_boundaries(df)
    /\ strategy' = detect(df).by
    /\ dpc' = "returned"
    /\ UNCHANGED <<df, othersDetect>>

NextDetect == Detect

SpecDetect == InitDetect /\ [][NextDetect]_vars

(***************************************************************************)
(* Claims about detect_trip_boundaries (SpecDetect).                       *)
(***************************************************************************)
\* What the claims say of the data, stated on the rows and not by the code's loops.
stopped(d, i) == isnull(d.speed[i]) \/ d.speed[i].val <= 1

NoTimestampGap(d) ==
    \A i \in 2..d.n :
        (~isnull(d.timestamp[i]) /\ ~isnull(d.timestamp[i - 1]))
            => d.timestamp[i].val - d.timestamp[i - 1].val <= TIMESTAMP_GAP_THRESHOLD_MINUTES

\* rows a..b (1-based) are a maximal run of stopped rows
StoppedRun(d, a, b) ==
    /\ a <= b
    /\ \A i \in a..b : stopped(d, i)
    /\ (a > 1 => ~stopped(d, a - 1))
    /\ (b < d.n => ~stopped(d, b + 1))

NoLongStop(d) ==
    \A a \in 1..d.n : \A b \in a..d.n :
        StoppedRun(d, a, b) => b - a + 1 <= ZERO_SPEED_THRESHOLD_POINTS

NoDistanceReset(d) ==
    LET x == fillna(d.trip_distance, 0)
    IN  \A i \in 2..d.n : x[i].val - x[i - 1].val >= -1

NoBoundaryInData(d) ==
    /\ ("timestamp" \in d.columns => NoTimestampGap(d))
    /\ ("speed" \in d.columns => NoLongStop(d))
    /\ ("trip_distance" \in d.columns => NoDistanceReset(d))

OrderedSegments(tb, n) ==
    \A k \in 1..Len(tb) :
        /\ 0 <= tb[k][1]
        /\ tb[k][1] <= tb[k][2]
        /\ tb[k][2] <= n - 1
        /\ (k > 1 => tb[k][1] > tb[k - 1][2])

\* C1: for every table of N >= 1 rows, whichever strategy returns, the list
\* returned is ordered and non-overlapping (start <= end, each start greater
\* than the previous end) and every index lies in [0, N-1].
C1_OrderedNonOverlapping ==
    (dpc = "returned" /\ df.n >= 1) => OrderedSegments(trip_boundaries, df.n)

C1_Witness ==
    /\ dpc = "returned"
    /\ strategy = "speed"
    /\ Len(trip_boundaries) >= 2
    /\ OrderedSegments(trip_boundaries, df.n)

\* C2: a strategy that finds no boundary is skipped in favour of the next: with
\* a timestamp column that parses and has no gap above 30 minutes, and a speed
\* column with a stopped run of more than 50 rows between two moving stretches,
\* the result is the split of the zero-speed strategy; and the distance-reset
\* split is the result when timestamp and speed yield no boundary.
StopBetweenMoving(d) ==
    \E a \in 2..d.n : \E b \in a..(d.n - 1) :
        StoppedRun(d, a, b) /\ b - a + 1 > ZERO_SPEED_THRESHOLD_POINTS

TimestampParses(d) ==
    "timestamp" \in d.columns /\ \A i \in 1..d.n : ~isnull(d.timestamp[i])

C2_SkippedInFavourOfNext ==
    dpc = "returned" =>
        /\ (/\ TimestampParses(df) /\ NoTimestampGap(df)
            /\ "speed" \in df.columns /\ StopBetweenMoving(df))
           => trip_boundaries = speed_method(df, [tb |-> <<>>, cs |-> 0]).tb
        /\ (/\ TimestampParses(df) /\ NoTimestampGap(df)
            /\ "speed" \in df.columns /\ NoLongStop(df)
            /\ "trip_distance" \in df.columns /\ ~NoDistanceReset(df))
           => trip_boundaries = distance_method(df, [tb |-> <<>>, cs |-> 0]).tb

\* C3: a table of N >= 1 rows in which no strategy finds a boundary yields
\* exactly the one segment (0, N-1); the empty list is returned only for a
\* table of 0 rows.
C3_SingleSegment ==
    dpc = "returned" =>
        /\ (df.n >= 1 /\ NoBoundaryInData(df)) => trip_boundaries = <<<<0, df.n - 1>>>>
        /\ (trip_boundaries = <<>> <=> df.n = 0)

C3_Witness ==
    /\ dpc = "returned"
    /\ df.n > 1
    /\ df.columns = DetectColumns
    /\ NoBoundaryInData(df)
    /\ trip_boundaries = <<<<0, df.n - 1>>>>

(***************************************************************************)
(* SpecPlate: standardize_vehicle_number applied to a string, then to its  *)
(* own result.                                                             *)
(***************************************************************************)
PlateChars == {"a", "B", "7", " ", "-", "#", "\t"}

\* the docstring's example, 'mp09 ab1234'
PlateExample == <<"m", "p", "0", "9", " ", "a", "b", "1", "2", "3", "4">>

PlateInputs == StringsUpTo(PlateChars, MaxPlateLen) \cup {PlateExample}

InitPlate ==
    /\ vn_in \in PlateInputs
    /\ vn_out = <<>>
    /\ vn_twice = <<>>
    /\ ppc = "input"
    /\ IdleDetect
    /\ IdleCols
    /\ IdleBatch
    /\ IdleRace
    /\ IdleMore

Standardize ==
    /\ ppc = "input"
    /\ vn_out' = standardize_vehicle_number(vn_in)
    /\ ppc' = "once"
    /\ UNCHANGED <<vn_in, vn_twice, othersPlate>>

StandardizeAgain ==
    /\ ppc = "once"
    /\ vn_twice' = standardize_vehicle_number(vn_out)
    /\ ppc' = "twice"
    /\ UNCHANGED <<vn_in, vn_out, othersPlate>>

NextPlate == Standardize \/ StandardizeAgain

SpecPlate == InitPlate /\ [][NextPlate]_vars

(***************************************************************************)
(* Claims about standardize_vehicle_number (SpecPlate).                    *)
(***************************************************************************)
\* empty, or non-empty blocks of uppercase letters and digits joined by one dash
WellFormedPlate(s) ==
    /\ \A i \in DOMAIN s : is_upper(s[i]) \/ s[i] \in Digits \/ s[i] = "-"
    /\ (s # <<>> => s[1] # "-" /\ s[Len(s)] # "-")
    /\ \A i \in 1..(Len(s) - 1) : ~(s[i] = "-" /\ s[i + 1] = "-")

\* C8: standardize_vehicle_number is idempotent, and its output is empty or a
\* sequence of non-empty uppercase alphanumeric blocks joined by exactly one
\* dash; 'mp09 ab1234' gives 'MP09-AB1234'.
C8_PlateIdempotent ==
    /\ ppc \in {"once", "twice"} => WellFormedPlate(vn_out)
    /\ ppc = "twice" => vn_twice = vn_out
    /\ (ppc \in {"once", "twice"} /\ vn_in = PlateExample)
           => vn_out = <<"M", "P", "0", "9", "-", "A", "B", "1", "2", "3", "4">>

C8_Witness ==
    /\ ppc = "twice"
    /\ vn_in = <<"a", "#", " ", "7">>
    /\ vn_out = <<"A", "-", "7">>
    /\ vn_twice = vn_out

(***************************************************************************)
(* SpecCols: standardize_columns applied to the columns of a table, then   *)
(* to the columns of its own result.  A table has at most MaxCols columns  *)
(* with distinct names drawn from RawNames, or is the table of all 23      *)
(* canonical fields.                                                       *)
(***************************************************************************)
RawNames ==
    Range(CanonicalFields) \cup
    { <<"S", "p", "e", "e", "d", " ", "(", "k", "m", "/", "h", ")">>,
      <<"V", "E", "H", "I", "C", "L", "E", "_", "S", "P", "E", "E", "D">>,
      <<"S", "P", "E", "E", "D">>,
      <<"S", "p", "e", "e", "d", ".">>,
      <<"g", "p", "s", "_", "s", "p", "e", "e", "d">>,
      <<"E", "n", "g", "i", "n", "e", " ", "R", "P", "M", " ", "[", "R", "P", "M", "]">>,
      <<"T", "I", "M", "E">>,
      <<"T", "i", "m", "e", "s", "t", "a", "m", "p">>,
      <<"d", "u", "r", "a", "t", "i", "o", "n">>,
      <<"T", "r", "i", "p", " ", "D", "i", "s", "t", "a", "n", "c", "e">>,
      <<"o", "d", "o", "m", "e", "t", "e", "r">>,
      <<"b", "r", "a", "k", "e", "_", "p", "e", "d", "a", "l">>,
      <<"b", "r", "a", "k", "i", "n", "g", "_", "f", "o", "r", "c", "e">>,
      <<"A", "c", "c", "e", "l", "e", "r", "a", "t", "i", "o", "n", " ", "(", "m", "/", "s", "sup2", ")">>,
      <<"c", "T", "e", "m", "p">>,
      <<"U", "s", "e", "r">>,
      <<"n", "o", "t", "e", "s">> }

ColumnInputs ==
    { c \in StringsUpTo(RawNames, MaxCols) : \A i, j \in DOMAIN c : i # j => c[i] # c[j] }
    \cup {CanonicalFields}

InitCols ==
    /\ cols_in \in ColumnInputs
    /\ cols_once = <<>>
    /\ cols_twice = <<>>
    /\ cpc = "input"
    /\ IdleDetect
    /\ IdlePlate
    /\ IdleBatch
    /\ IdleRace
    /\ IdleMore

Resolve ==
    /\ cpc = "input"
    /\ cols_once' = standardize_columns(cols_in)
    /\ cpc' = "once"
    /\ UNCHANGED <<cols_in, cols_twice, othersCols>>

ResolveAgain ==
    /\ cpc = "once"
    /\ cols_twice' = standardize_columns(cols_once)
    /\ cpc' = "twice"
    /\ UNCHANGED <<cols_in, cols_once, othersCols>>

NextCols == Resolve \/ ResolveAgain

SpecCols == InitCols /\ [][NextCols]_vars

(***************************************************************************)
(* Claims about standardize_columns (SpecCols).                            *)
(***************************************************************************)
\* C9: for every input table, resolving the resolved table again leaves the
\* column names as the first resolution made them.
C9_ResolutionIdempotent ==
    cpc = "twice" => cols_twice = cols_once

\* C10: resolving a table whose column names are all canonical field names
\* leaves every column name unchanged.
C10_CanonicalNoOp ==
    (cpc \in {"once", "twice"} /\ \A i \in DOMAIN cols_in : cols_in[i] \in Range(CanonicalFields))
        => cols_once = cols_in

C10_Witness ==
    /\ cpc = "once"
    /\ cols_in = CanonicalFields
    /\ cols_once = cols_in

\* the aliases of field f that some column of c matches under normalization
MatchingAliases(f, c) ==
    { v \in DOMAIN NormalizedMapping[f] :
        \E i \in DOMAIN c : normalize(c[i]) = NormalizedMapping[f][v] }

EarliestAlias(f, c) == CHOOSE v \in MatchingAliases(f, c) : \A w \in MatchingAliases(f, c) : v <= w

ColumnsNamed(c, name) == { i \in DOMAIN c : c[i] = name }

\* field f after resolution: one column of its name, the one its earliest
\* matching alias matched; without a match, no column was renamed to it
FirstAliasWins(f) ==
    LET F == CanonicalFields[f]
    IN  IF MatchingAliases(f, cols_in) # {}
        THEN \E i \in DOMAIN cols_in :
                /\ normalize(cols_in[i]) = NormalizedMapping[f][EarliestAlias(f, cols_in)]
                /\ ColumnsNamed(cols_once, F) = {i}
        ELSE ColumnsNamed(cols_once, F) \subseteq ColumnsNamed(cols_in, F)

\* C11: after standardize_columns every canonical field with a matching
\* alias names exactly one column, the source column its earliest matching
\* alias matched, and a field without a matching alias got no column.
C11_FirstAliasWins ==
    cpc \in {"once", "twice"} => \A f \in DOMAIN CanonicalFields : FirstAliasWins(f)

(***************************************************************************)
(* SpecBatch: process_all_files walks the folders; each file goes through  *)
(* process_file_with_error_handling, whose segments go through             *)
(* process_trip_segment and db.add_trip.  What a file holds is drawn when   *)
(* the file is opened.                                                     *)
(***************************************************************************)
Folder(isdir, nfiles) == [isdir |-> isdir, nfiles |-> nfiles]

\* a missing folder followed by a folder of files (possibly none), or two folders of
\* files with an empty one between them; at most MaxFiles files in all
FolderConfigs ==
    { <<Folder(FALSE, 0), Folder(TRUE, n)>> : n \in 0..MaxFiles }
    \cup { <<Folder(TRUE, c[1]), Folder(TRUE, 0), Folder(TRUE, c[2])>> :
             c \in { d \in (1..MaxFiles) \X (1..MaxFiles) : d[1] + d[2] <= MaxFiles } }

ReadOk == [k \in 1..Len(encodings_to_try) |-> "ok"]
ReadLatin == [k \in 1..Len(encodings_to_try) |-> IF k = 1 THEN "UnicodeDecodeError" ELSE "ok"]
ReadUndecodable == [k \in 1..Len(encodings_to_try) |-> "UnicodeDecodeError"]
ReadBroken == [k \in 1..Len(encodings_to_try) |-> "Exception"]

UserIds == 1..MaxUserId

\* 'ab 1' and 'A-B1': different plates that share the username 'ab1'
Plate1 == <<"a", "b", " ", "1">>
Plate2 == <<"A", "-", "B", "1">>
RawPlates == {Plate1, Plate2}

FileContent(read, shape, user_id, vehicle_number, d) ==
    [read |-> read, shape |-> shape, user_id |-> user_id,
     vehicle_number |-> vehicle_number, df |-> d]

FileContents ==
    { FileContent(read, "table", 1, Plate1, LongTable) : read \in {ReadUndecodable, ReadBroken} }
    \cup { FileContent(ReadOk, shape, 1, Plate1, LongTable) :
             shape \in {"empty", "few_columns", "unreadable_cells"} }
    \cup { FileContent(ReadOk, "table", u, p, LongTable) : u \in UserIds, p \in RawPlates }
    \cup { FileContent(ReadLatin, "table", 1, Plate1, d) : d \in BatchTables \ {LongTable} }

\* what process_trip_segment returns for a segment of at least MIN_SEGMENT_ROWS rows:
\* (trip_data, None), or (None, error_msg)
SegmentOutcomes == {"ok", "error_msg"}

InitBatch ==
    /\ dry_run = FALSE
    /\ folders \in FolderConfigs
    /\ folder_idx = 1
    /\ file_idx = 0
    /\ bpc = "folder"
    /\ file_locals = NoFile
    /\ trip_data = NoTrip
    /\ processed_files = <<>>
    /\ skipped_files = <<>>
    /\ total_trips_processed = 0
    /\ total_files_found = 0
    /\ users = {}
    /\ trips = <<>>
    /\ visited = <<>>
    /\ trip_error_log = <<>>
    /\ summary = NoSummary
    /\ IdleDetect
    /\ IdlePlate
    /\ IdleCols
    /\ IdleRace
    /\ IdleMore

\* a folder that is not a directory, or holds no data file, is passed over
SkipFolder ==
    /\ bpc = "folder"
    /\ folder_idx <= Len(folders)
    /\ ~folders[folder_idx].isdir \/ folders[folder_idx].nfiles = 0
    /\ folder_idx' = folder_idx + 1
    /\ UNCHANGED <<dry_run, folders, file_idx, bpc, file_locals, trip_data, processed_files, skipped_files,
                   total_trips_processed, total_files_found, users, trips, visited,
                   trip_error_log, summary, othersBatch>>

EnterFolder ==
    /\ bpc = "folder"
    /\ folder_idx <= Len(folders)
    /\ folders[folder_idx].isdir
    /\ folders[folder_idx].nfiles > 0
    /\ total_files_found' = total_files_found + folders[folder_idx].nfiles
    /\ file_idx' = 1
    /\ bpc' = "file"
    /\ UNCHANGED <<dry_run, folders, folder_idx, file_locals, trip_data, processed_files, skipped_files,
                   total_trips_processed, users, trips, visited, trip_error_log, summary,
                   othersBatch>>

\* process_file_with_error_handling from its call to the head of its segment loop
OpenFile ==
    /\ bpc = "file"
    /\ \E f \in FileContents :
        LET filename == <<folder_idx, file_idx>>
            c == open_file(filename, f)
        IN  /\ file_locals' = c
            /\ users' = IF reaches_identity(f)
                        THEN ensure_user_exists(users, f.user_id, c.vehicle_number)
                        ELSE users
            /\ visited' = Append(visited, filename)
            /\ bpc' = IF c.trip_boundaries = <<>> THEN "account" ELSE "segment"
    /\ UNCHANGED <<dry_run, folders, folder_idx, file_idx, trip_data, processed_files, skipped_files,
                   total_trips_processed, total_files_found, trips, trip_error_log, summary,
                   othersBatch>>

\* one pass of the segment loop up to the call of db.add_trip
ProcessSegment ==
    /\ bpc = "segment"
    /\ LET b == file_locals.trip_boundaries[file_locals.trip_index + 1]
           rows == b[2] - b[1] + 1
           name == trip_error(file_locals.filename, file_locals.trip_index, "").name
       IN  IF rows < MIN_SEGMENT_ROWS
           THEN /\ file_locals' = [file_locals EXCEPT !.errors = Append(@, trip_error(file_locals.filename, file_locals.trip_index,
                                                                      "Trip too short")),
                                      !.trip_index = @ + 1]
                /\ bpc' = after_segment(file_locals)
                /\ UNCHANGED trip_data
           ELSE \E outcome \in SegmentOutcomes :
                    IF outcome = "ok"
                    THEN /\ trip_data' = [user_id |-> file_locals.user_id, name |-> name]
                         /\ bpc' = "persist"
                         /\ UNCHANGED file_locals
                    ELSE /\ file_locals' = [file_locals EXCEPT !.errors = Append(@, trip_error(file_locals.filename,
                                                                     file_locals.trip_index, outcome)),
                                               !.trip_index = @ + 1]
                         /\ bpc' = after_segment(file_locals)
                         /\ UNCHANGED trip_data
    /\ UNCHANGED <<dry_run, folders, folder_idx, file_idx, processed_files, skipped_files,
                   total_trips_processed, total_files_found, users, trips, visited,
                   trip_error_log, summary, othersBatch>>

\* db.add_trip(**db_trip_data) inside its try: the row is written, or the call raises;
\* in a dry run the function called in its place logs the row and returns
AddTrip ==
    /\ bpc = "persist"
    /\ \E inserted \in (IF dry_run THEN {TRUE} ELSE BOOLEAN) :
        IF inserted
        THEN /\ trips' = IF dry_run THEN trips ELSE Append(trips, trip_data)
             /\ file_locals' = [file_locals EXCEPT !.processed_trips = Append(@, trip_data.name),
                                   !.trip_index = @ + 1]
        ELSE /\ trips' = trips
             /\ file_locals' = [file_locals EXCEPT !.errors = Append(@, trip_error(file_locals.filename, file_locals.trip_index,
                                                                   "Database insertion failed")),
                                   !.trip_index = @ + 1]
    /\ trip_data' = NoTrip
    /\ bpc' = after_segment(file_locals)
    /\ UNCHANGED <<dry_run, folders, folder_idx, file_idx, processed_files, skipped_files,
                   total_trips_processed, total_files_found, users, visited, trip_error_log,
                   summary, othersBatch>>

\* a count of the segments found in the file
trip_count_detected(c) == Len(c.trip_boundaries)

\* trip_count = len(trips_processed)
trip_count(c) == Len(c.processed_trips)

\* the file's result is entered in the batch's lists and the loops move on
AccountFile ==
    /\ bpc = "account"
    /\ IF file_locals.raised
       THEN /\ skipped_files' = Append(skipped_files,
                                       [filename |-> file_locals.filename, reason |-> <<"Unexpected error">>])
            /\ UNCHANGED <<processed_files, total_trips_processed, trip_error_log>>
       ELSE /\ IF file_locals.processed_trips # <<>>
               THEN /\ processed_files' = Append(processed_files,
                                                 [filename |-> file_locals.filename,
                                                  trip_count |-> trip_count(file_locals)])
                    /\ total_trips_processed' = total_trips_processed + trip_count(file_locals)
                    /\ UNCHANGED skipped_files
               ELSE /\ skipped_files' = Append(skipped_files,
                                               [filename |-> file_locals.filename,
                                                reason |-> error_summary(file_locals.errors)])
                    /\ UNCHANGED <<processed_files, total_trips_processed>>
            /\ trip_error_log' = trip_error_log \o file_locals.errors
    /\ LET nxt == next_file(folders, folder_idx, file_idx)
       IN  /\ bpc' = nxt.bpc
           /\ folder_idx' = nxt.folder_idx
           /\ file_idx' = nxt.file_idx
    /\ file_locals' = NoFile
    /\ UNCHANGED <<dry_run, folders, trip_data, total_files_found, users, trips, visited, summary,
                   othersBatch>>

Summarize ==
    /\ bpc = "folder"
    /\ folder_idx > Len(folders)
    /\ summary' = summary_of(total_files_found, processed_files, skipped_files,
                             total_trips_processed)
    /\ bpc' = "done"
    /\ UNCHANGED <<dry_run, folders, folder_idx, file_idx, file_locals, trip_data, processed_files, skipped_files,
                   total_trips_processed, total_files_found, users, trips, visited,
                   trip_error_log, othersBatch>>

NextBatch == SkipFolder \/ EnterFolder \/ OpenFile \/ ProcessSegment \/ AddTrip \/ AccountFile \/ Summarize

SpecBatch == InitBatch /\ [][NextBatch]_vars

\* main with --dry-run: db.add_trip is overridden, then process_all_files runs
InitDryRun ==
    /\ dry_run = TRUE
    /\ folders \in FolderConfigs
    /\ folder_idx = 1
    /\ file_idx = 0
    /\ bpc = "folder"
    /\ file_locals = NoFile
    /\ trip_data = NoTrip
    /\ processed_files = <<>>
    /\ skipped_files = <<>>
    /\ total_trips_processed = 0
    /\ total_files_found = 0
    /\ users = {}
    /\ trips = <<>>
    /\ visited = <<>>
    /\ trip_error_log = <<>>
    /\ summary = NoSummary
    /\ IdleDetect
    /\ IdlePlate
    /\ IdleCols
    /\ IdleRace
    /\ IdleMore

SpecDryRun == InitDryRun /\ [][NextBatch]_vars

(***************************************************************************)
(* Claims about the batch (SpecBatch).                                     *)
(***************************************************************************)
\* the data files the folders hold
AllFiles(fs) == { <<i, j>> : i \in DOMAIN fs, j \in 1..MaxFiles } \cap
                { n \in (DOMAIN fs) \X (1..MaxFiles) : fs[n[1]].isdir /\ n[2] <= fs[n[1]].nfiles }

NoDuplicates(seq) == \A i, j \in DOMAIN seq : i # j => seq[i] # seq[j]

\* the entries of the two result lists that are about file `filename`
EntriesFor(filename) ==
    Cardinality({ k \in DOMAIN processed_files : processed_files[k].filename = filename })
    + Cardinality({ k \in DOMAIN skipped_files : skipped_files[k].filename = filename })

FailedFileThenProcessedFile ==
    \E k \in DOMAIN skipped_files, j \in DOMAIN processed_files, a, b \in DOMAIN visited :
        /\ a < b
        /\ visited[a] = skipped_files[k].filename
        /\ visited[b] = processed_files[j].filename

BatchVisitsEveryFileOnce ==
    /\ NoDuplicates(visited)
    /\ bpc = "done" =>
        /\ Range(visited) = AllFiles(folders)
        /\ \A f \in AllFiles(folders) : EntriesFor(f) = 1
        /\ summary = summary_of(Cardinality(AllFiles(folders)), processed_files,
                                skipped_files, Len(trips))

\* what is left to do, most significant first: folders, files of the folder,
\* stage of the file, segments of the file, stage of the segment
BatchRank ==
    <<Len(folders) + 1 - folder_idx,
      IF bpc = "done" THEN 0
      ELSE IF bpc = "folder"
      THEN (IF folder_idx <= Len(folders) THEN folders[folder_idx].nfiles + 1 ELSE 1)
      ELSE folders[folder_idx].nfiles + 1 - file_idx,
      IF bpc = "file" THEN 3 ELSE IF bpc \in {"segment", "persist"} THEN 2
      ELSE IF bpc = "account" THEN 1 ELSE 0,
      Len(file_locals.trip_boundaries) - file_locals.trip_index,
      IF bpc = "segment" THEN 1 ELSE 0>>

LexLess(x, y) ==
    \E k \in DOMAIN x : x[k] < y[k] /\ \A j \in 1..(k - 1) : x[j] = y[j]

\* some step of the batch can be taken (a file that is due can always be opened)
BatchCanStep ==
    \/ bpc = "file"
    \/ ENABLED (SkipFolder \/ EnterFolder \/ ProcessSegment \/ AddTrip \/ AccountFile
                   \/ Summarize)

\* C4: whatever the folders hold and whichever files, segments and insertions
\* fail, every data file found is handed to the file handler exactly once and
\* ends in exactly one of the two result lists (no failure leaves the batch);
\* the batch is never stuck before it has returned the summary, and every
\* step it takes reduces what is left to do, so it ends by returning it.
C4_BatchVisitsAllAndTerminates ==
    /\ [](BatchVisitsEveryFileOnce /\ (bpc # "done" => BatchCanStep))
    /\ [][LexLess(BatchRank', BatchRank)]_vars

C4_Witness ==
    /\ bpc = "done"
    /\ FailedFileThenProcessedFile
    /\ \E k \in DOMAIN skipped_files : skipped_files[k].reason = <<"Fatal processing error">>
    /\ \E k \in DOMAIN trip_error_log : trip_error_log[k].reason = "Database insertion failed"

\* an error the file handler returned shows, name of its file and reason, in the skip list
InSkipList(e) ==
    \E k \in DOMAIN skipped_files :
        /\ skipped_files[k].filename = e.name.file
        /\ e.reason \in Range(skipped_files[k].reason)

\* C5: when the batch has ended, every failure the file handler reported, of
\* a file or of a segment, is found with its reason in the list of skipped
\* files, also when another segment of the same file was persisted.
C5_EveryFailureReported ==
    bpc = "done" => \A k \in DOMAIN trip_error_log : InSkipList(trip_error_log[k])

\* C6: whenever a trip record is about to be handed to db.add_trip, the users
\* table holds a row whose id is the record's user_id.
C6_UserRowBeforeTrip ==
    bpc = "persist" => \E u \in users : u.id = trip_data.user_id

\* the rows of the trips table written from file `filename`
PersistedFrom(filename) == { k \in DOMAIN trips : trips[k].name.file = filename }

InProcessed(filename) == \E k \in DOMAIN processed_files : processed_files[k].filename = filename
InSkipped(filename) == \E k \in DOMAIN skipped_files : skipped_files[k].filename = filename

\* a batch of two files, of which one was persisted from and the other was empty
OneValidOneEmpty ==
    /\ Cardinality(AllFiles(folders)) = 2
    /\ \E f, g \in AllFiles(folders) :
           /\ PersistedFrom(f) # {}
           /\ \E k \in DOMAIN skipped_files :
                  skipped_files[k] = [filename |-> g, reason |-> <<"File is empty">>]

\* C16: in the summary the batch returns, every data file found is counted
\* once, as processed when a trip of it was persisted and as skipped
\* otherwise: processed_files + skipped_files = total_files, and success_rate
\* is 100 * processed_files / total_files, 0 when no file was found; one
\* valid file and one empty file give total_files 2, processed_files 1,
\* skipped_files 1 and total_trips at least 1.
C16_BatchAccounting ==
    bpc = "done" =>
        /\ summary.total_files = Cardinality(AllFiles(folders))
        /\ summary.processed_files + summary.skipped_files = summary.total_files
        /\ summary.processed_files =
               Cardinality({ f \in AllFiles(folders) : PersistedFrom(f) # {} })
        /\ \A f \in AllFiles(folders) :
               /\ InProcessed(f) <=> PersistedFrom(f) # {}
               /\ InSkipped(f) <=> PersistedFrom(f) = {}
        /\ summary.total_trips = Len(trips)
        /\ IF summary.total_files = 0
           THEN summary.success_rate.num = 0
           ELSE /\ summary.success_rate.num = 100 * summary.processed_files
                /\ summary.success_rate.den = summary.total_files
        /\ OneValidOneEmpty =>
               /\ summary.total_files = 2
               /\ summary.processed_files = 1
               /\ summary.skipped_files = 1
               /\ summary.total_trips >= 1

C16_Witness ==
    /\ bpc = "done"
    /\ OneValidOneEmpty
    /\ summary.total_files = 2
    /\ summary.processed_files = 1
    /\ summary.skipped_files = 1
    /\ summary.success_rate = [num |-> 100, den |-> 2]

(***************************************************************************)
(* Claims about a dry run (SpecDryRun).                                    *)
(***************************************************************************)
\* C20: a run with --dry-run inserts nothing: the users table and the trips
\* table stay as they were when the run started (empty here).
C20_DryRunWritesNothing == users = {} /\ trips = <<>>

(***************************************************************************)
(* SpecRace: two workers call ensure_user_exists for the same user id on   *)
(* one users table; each statement a worker sends to the database is one   *)
(* step, and a worker that has returned may call again.                    *)
(***************************************************************************)
RaceUserId == 1

\* the table as ensure_user_exists left it for earlier files of other users
RaceStores ==
    {{}} \cup { ensure_user_exists({}, u, p) : u \in UserIds \ {RaceUserId}, p \in RawPlates }

InitRace ==
    /\ users \in RaceStores
    /\ \E p \in [Workers -> RawPlates] :
        workers = [w \in Workers |->
                      [NoCall EXCEPT !.user_id = RaceUserId,
                                     !.vehicle_number = standardize_vehicle_number(p[w])]]
    /\ IdleDetect
    /\ IdlePlate
    /\ IdleCols
    /\ IdleLoops
    /\ IdleMore

Call(w) ==
    /\ workers[w].pc = "idle"
    /\ workers[w].calls < MaxCalls
    /\ workers' = [workers EXCEPT ![w].pc = "select1",
                                  ![w].calls = @ + 1,
                                  ![w].existed = select_user(users, workers[w].user_id) # {},
                                  ![w].wrote = FALSE]
    /\ UNCHANGED <<users, othersRace>>

\* a worker's SELECT: on a hit the block is passed over
Select(w, at, insert, after) ==
    /\ workers[w].pc = at
    /\ workers' = [workers EXCEPT ![w].pc = IF select_user(users, workers[w].user_id) = {}
                                            THEN insert ELSE after]
    /\ UNCHANGED <<users, othersRace>>

\* a worker's INSERT inside its try: the row is written, or the error is logged
Insert(w, at, row, after) ==
    /\ workers[w].pc = at
    /\ users' = try_insert_user(users, row)
    /\ workers' = [workers EXCEPT ![w].pc = after,
                                  ![w].wrote = @ \/ insert_user_ok(users, row)]
    /\ UNCHANGED othersRace

Select1(w) == Select(w, "select1", "insert1", "select2")
Insert1(w) ==
    Insert(w, "insert1", first_row(workers[w].user_id, workers[w].vehicle_number), "select2")
Select2(w) == Select(w, "select2", "insert2", "idle")
Insert2(w) ==
    Insert(w, "insert2", second_row(workers[w].user_id, workers[w].vehicle_number), "idle")

NextRace ==
    \E w \in Workers : Call(w) \/ Select1(w) \/ Insert1(w) \/ Select2(w) \/ Insert2(w)

SpecRace == InitRace /\ [][NextRace]_vars

(***************************************************************************)
(* Claims about ensure_user_exists under concurrency (SpecRace).           *)
(***************************************************************************)
Returned(w) == workers[w].pc = "idle" /\ workers[w].calls > 0

\* C7: once both workers have returned from ensure_user_exists for the same
\* user id, however their lookups and inserts interleaved, the users table
\* holds exactly one row with that id; and a call that found the id present
\* when it started has written nothing.
C7_RaceTolerantIdempotent ==
    /\ (\A w \in Workers : Returned(w)) =>
           Cardinality(select_user(users, RaceUserId)) = 1
    /\ \A w \in Workers : (Returned(w) /\ workers[w].existed) => ~workers[w].wrote

(***************************************************************************)
(* generate_realistic_field.  The generators are seeded from the segment's *)
(* length and hash(str(first index label) + field_name); hash() of a       *)
(* string is fixed within one program execution and is drawn anew by each  *)
(* execution (string hashing is salted per process).  A stream of the      *)
(* generators is known by its seed.                                        *)
(***************************************************************************)
\* str(df_segment.index[0]) + field_name
seed_string(df_segment, field_name) == str_int(df_segment.first_index) \o <<field_name>>

\* values hash() may give, negative and positive (of its 64 bits, values below 2^31 in size)
HashValues == {-7, 7, 1000003}

abs(n) == IF n < 0 THEN -n ELSE n

\* np.random.seed(seed_value % (2**32)): the numpy stream, its seed written as
\* pow32 * 2^32 + rest (exact for seed values below 2^31 in size)
np_random_seed(seed_value) ==
    IF seed_value >= 0 THEN [pow32 |-> 0, rest |-> seed_value]
    ELSE [pow32 |-> 1, rest |-> seed_value]

\* random.seed(seed_value): an int seeds by its absolute value
random_seed(seed_value) == abs(seed_value)

\* whether the branch for this field draws random.uniform
draws_uniform(field_name, df_segment) ==
    field_name \in {"speed", "rpm"} \/ df_segment.speed = "absent"

\* the returned series: what it is computed from
series_of(field_name, df_segment, seed_value) ==
    [field_name |-> field_name,
     length |-> df_segment.length,
     speed |-> IF field_name = "speed" THEN "absent" ELSE df_segment.speed,
     uniform |-> IF draws_uniform(field_name, df_segment) THEN random_seed(seed_value) ELSE -1,
     normal |-> np_random_seed(seed_value)]

(***************************************************************************)
(* SpecSynth: two calls of generate_realistic_field, the second in the     *)
(* same program execution as the first or in another one.                  *)
(***************************************************************************)
SynthFields == {"speed", "rpm", "throttle"}

Segments ==
    [length : 5..MaxSegmentRows, first_index : {0, MaxSegmentRows}, speed : {"absent", "present"}]

InitSynth ==
    /\ str_hashes = [e \in Executions |-> {}]
    /\ \E f \in [Runs -> SynthFields], g \in [Runs -> Segments], e \in Executions :
        runs = [r \in Runs |->
                   [NoRun EXCEPT !.execution = IF r = 1 THEN 1 ELSE e,
                                 !.field_name = f[r],
                                 !.df_segment = g[r]]]
    /\ IdleDetect
    /\ IdlePlate
    /\ IdleCols
    /\ IdleBatch
    /\ IdleRace
    /\ IdleValidate
    /\ IdleIdentity
    /\ IdleIngest
    /\ IdleLast

\* the call, when hash() has `h` for the seed string in this execution
Generate(r, h) ==
    LET run == runs[r]
        seed_value == run.df_segment.length + h
    IN  /\ ~run.returned
        /\ runs' = [runs EXCEPT ![r].seed_value = seed_value,
                                ![r].series = series_of(run.field_name, run.df_segment, seed_value),
                                ![r].returned = TRUE]

\* the first hash() of this string in the execution
GenerateFresh(r) ==
    LET key == seed_string(runs[r].df_segment, runs[r].field_name)
        e == runs[r].execution
    IN  /\ \A m \in str_hashes[e] : m.key # key
        /\ \E h \in HashValues :
               /\ Generate(r, h)
               /\ str_hashes' = [str_hashes EXCEPT ![e] = @ \cup {[key |-> key, value |-> h]}]
        /\ UNCHANGED othersSynth

\* hash() of a string the execution has hashed before
GenerateAgain(r) ==
    LET key == seed_string(runs[r].df_segment, runs[r].field_name)
        e == runs[r].execution
    IN  /\ \E m \in str_hashes[e] : m.key = key /\ Generate(r, m.value)
        /\ UNCHANGED <<str_hashes, othersSynth>>

NextSynth == \E r \in Runs : GenerateFresh(r) \/ GenerateAgain(r)

SpecSynth == InitSynth /\ [][NextSynth]_vars

(***************************************************************************)
(* Claims about generate_realistic_field (SpecSynth).                      *)
(***************************************************************************)
SameSynthInput ==
    /\ runs[1].field_name = runs[2].field_name
    /\ runs[1].df_segment = runs[2].df_segment

\* C12: two calls for the same field on segments of the same length and
\* starting position (and the same rows) return identical series, whether
\* they run in one program execution or in two.
C12_SynthesisReproducible ==
    (runs[1].returned /\ runs[2].returned /\ SameSynthInput)
        => runs[1].series = runs[2].series

(***************************************************************************)
(* validate_trip_data.  trip_data is a dictionary: a function from the     *)
(* keys it has to their values.  A value is None, NaN or a number;             *)
(* distances are written in tenths of a kilometre.                         *)
(***************************************************************************)
MIN_TRIP_DURATION_MINUTES == 2
MAX_TRIP_DURATION_MINUTES == 1440
MIN_TRIP_DISTANCE_KM == 5
MAX_TRIP_DISTANCE_KM == 20000

None == [kind |-> "None", v |-> 0]
float_nan == [kind |-> "nan", v |-> 0]
number(n) == [kind |-> "num", v |-> n]

\* comparisons of a value that is not None with a number (any comparison with NaN is False)
le(a, n) == a.kind = "num" /\ a.v <= n
ge(a, n) == a.kind = "num" /\ a.v >= n
lt(a, n) == a.kind = "num" /\ a.v < n
gt(a, n) == a.kind = "num" /\ a.v > n

\* 'key' in trip_data and trip_data['key'] is not None
has_value(td, key) == key \in DOMAIN td /\ td[key] # None

required_fields == <<"user_id", "trip_date", "distance_km", "avg_speed_kmph", "score">>

\* lines 361-363: one "Missing required field" per required key absent or None
RECURSIVE missing_required(_, _)
missing_required(td, k) ==
    IF k > Len(required_fields) THEN <<>>
    ELSE (IF has_value(td, required_fields[k]) THEN <<>>
          ELSE << <<"Missing required field", required_fields[k]>> >>)
         \o missing_required(td, k + 1)

\* a validation that rejects a distance above the maximum
check_distance_reject(c) ==
    IF has_value(c.trip_data, "distance_km")
       /\ ~(ge(c.trip_data["distance_km"], MIN_TRIP_DISTANCE_KM)
            /\ le(c.trip_data["distance_km"], MAX_TRIP_DISTANCE_KM))
       /\ gt(c.trip_data["distance_km"], MAX_TRIP_DISTANCE_KM)
    THEN [c EXCEPT !.errors = @ \o << <<"Trip too long", c.trip_data["distance_km"].v>> >>]
    ELSE c

\* lines 366-372, with the record and the errors so far
check_distance(c) ==
    IF has_value(c.trip_data, "distance_km")
       /\ ~(ge(c.trip_data["distance_km"], MIN_TRIP_DISTANCE_KM)
            /\ le(c.trip_data["distance_km"], MAX_TRIP_DISTANCE_KM))
       /\ gt(c.trip_data["distance_km"], MAX_TRIP_DISTANCE_KM)
    THEN [c EXCEPT !.trip_data["distance_km"] = number(MAX_TRIP_DISTANCE_KM)]
    ELSE c

\* lines 374-382
check_duration(c) ==
    IF has_value(c.trip_data, "trip_duration")
       /\ ~(ge(c.trip_data["trip_duration"], MIN_TRIP_DURATION_MINUTES)
            /\ le(c.trip_data["trip_duration"], MAX_TRIP_DURATION_MINUTES))
    THEN IF gt(c.trip_data["trip_duration"], MAX_TRIP_DURATION_MINUTES)
         THEN [c EXCEPT !.trip_data["trip_duration"] = number(MAX_TRIP_DURATION_MINUTES)]
         ELSE IF lt(c.trip_data["trip_duration"], MIN_TRIP_DURATION_MINUTES)
              THEN [c EXCEPT !.errors = @ \o << <<"Trip too short", c.trip_data["trip_duration"].v>> >>]
              ELSE c
    ELSE c

\* lines 384-390
check_avg_speed(c) ==
    IF has_value(c.trip_data, "avg_speed_kmph")
       /\ ~(ge(c.trip_data["avg_speed_kmph"], 0) /\ le(c.trip_data["avg_speed_kmph"], 300))
    THEN IF gt(c.trip_data["avg_speed_kmph"], 300)
         THEN [c EXCEPT !.trip_data["avg_speed_kmph"] = number(200)]
         ELSE [c EXCEPT !.errors = @ \o << <<"Invalid average speed", c.trip_data["avg_speed_kmph"]>> >>]
    ELSE c

\* the record as the call leaves it, and the pair the call returns
validate_trip_data(td) ==
    LET c == check_avg_speed(check_duration(check_distance(
                 [trip_data |-> td, errors |-> missing_required(td, 1)])))
    IN  [trip_data |-> c.trip_data, is_valid |-> Len(c.errors) = 0, errors |-> c.errors]

(***************************************************************************)
(* SpecValidate: validate_trip_data applied to one record.                 *)
(***************************************************************************)
\* marks, among the values a record is built from, a key the record does not have
Absent == [kind |-> "absent", v |-> 0]

Presence == {Absent, None, number(1)}

Distances ==
    {Absent, None, float_nan, number(0), number(MIN_TRIP_DISTANCE_KM),
     number(MAX_TRIP_DISTANCE_KM), number(MAX_TRIP_DISTANCE_KM + 1)}

Durations ==
    {Absent, None, float_nan, number(MIN_TRIP_DURATION_MINUTES - 1),
     number(MIN_TRIP_DURATION_MINUTES), number(MAX_TRIP_DURATION_MINUTES),
     number(MAX_TRIP_DURATION_MINUTES + 1)}

Speeds == {Absent, None, float_nan, number(-1), number(0), number(300), number(301)}

\* the dictionary holding the values that are not Absent
make_trip_data(values) ==
    [k \in {key \in DOMAIN values : values[key] # Absent} |-> values[k]]

InitValidate ==
    /\ \E user_id \in Presence, trip_date \in Presence, score \in Presence,
          distance \in Distances, duration \in Durations, speed \in Speeds :
        validation = [NoValidation EXCEPT
                          !.pc = "input",
                          !.given = make_trip_data(
                                        [user_id |-> user_id, trip_date |-> trip_date,
                                         score |-> score, distance_km |-> distance,
                                         trip_duration |-> duration,
                                         avg_speed_kmph |-> speed])]
    /\ IdleDetect
    /\ IdlePlate
    /\ IdleCols
    /\ IdleBatch
    /\ IdleRace
    /\ IdleSynth
    /\ IdleIdentity
    /\ IdleIngest
    /\ IdleLast

Validate ==
    /\ validation.pc = "input"
    /\ validation' =
           [validation EXCEPT
               !.pc = "returned",
               !.trip_data = validate_trip_data(validation.given).trip_data,
               !.is_valid = validate_trip_data(validation.given).is_valid,
               !.errors = validate_trip_data(validation.given).errors]
    /\ UNCHANGED othersValidate

NextValidate == Validate

SpecValidate == InitValidate /\ [][NextValidate]_vars

(***************************************************************************)
(* Claims about validate_trip_data (SpecValidate).                         *)
(***************************************************************************)
ErrorKinds(errors) == {errors[i][1] : i \in DOMAIN errors}

\* the given record with another distance
WithDistance(td, d) == [td EXCEPT !["distance_km"] = d]

\* C13: a distance_km above MAX_TRIP_DISTANCE_KM is set to the maximum and
\* the record is judged as it would be with the maximum for a distance (it
\* is not rejected for the distance); a trip_duration below
\* MIN_TRIP_DURATION_MINUTES is rejected, is_valid False with a "Trip too
\* short" reason; and is_valid is True exactly when the reason list is empty.
C13_ClampAboveRejectBelow ==
    validation.pc = "returned" =>
        /\ (has_value(validation.given, "distance_km")
                /\ gt(validation.given["distance_km"], MAX_TRIP_DISTANCE_KM))
             => /\ validation.trip_data["distance_km"] = number(MAX_TRIP_DISTANCE_KM)
                /\ validation.errors =
                       validate_trip_data(WithDistance(validation.given,
                                                       number(MAX_TRIP_DISTANCE_KM))).errors
        /\ (has_value(validation.given, "trip_duration")
                /\ lt(validation.given["trip_duration"], MIN_TRIP_DURATION_MINUTES))
             => /\ ~validation.is_valid
                /\ "Trip too short" \in ErrorKinds(validation.errors)
        /\ validation.is_valid <=> validation.errors = <<>>

C13_Witness ==
    /\ validation.pc = "returned"
    /\ has_value(validation.given, "distance_km")
    /\ gt(validation.given["distance_km"], MAX_TRIP_DISTANCE_KM)
    /\ validation.trip_data["distance_km"] = number(MAX_TRIP_DISTANCE_KM)
    /\ validation.is_valid

(***************************************************************************)
(* extract_user_id and extract_vehicle_number.  Of the table they read the *)
(* user_id column (cells as pd.to_numeric makes them) and the              *)
(* vehicle_number column (texts, as clean_column_data left them); a column *)
(* the table does not have is the empty sequence.                          *)
(***************************************************************************)
\* s[i:].startswith(word)
starts_with(s, i, word) ==
    i + Len(word) - 1 <= Len(s) /\ SubSeq(s, i, i + Len(word) - 1) = word

\* the longest run of decimal digits of s that starts at position i: what (\d+) takes
RECURSIVE digits_from(_, _)
digits_from(s, i) ==
    IF i <= Len(s) /\ s[i] \in Digits THEN <<s[i]>> \o digits_from(s, i + 1) ELSE <<>>

\* int(text) of a text of decimal digits
RECURSIVE int_digits(_)
int_digits(s) ==
    IF s = <<>> THEN 0
    ELSE int_digits(SubSeq(s, 1, Len(s) - 1)) * 10
         + (CHOOSE v \in 0..9 : DecimalDigits[v + 1] = s[Len(s)])

\* the patterns, each a word, the optional separators after it, and then (\d+)
user_patterns ==
    << [word |-> <<"u", "s", "e", "r">>, seps |-> {"_", "-"}],
       [word |-> <<"d", "r", "i", "v", "e", "r">>, seps |-> {"_", "-"}],
       [word |-> <<"u">>, seps |-> {}],
       [word |-> <<"d">>, seps |-> {}] >>

\* the group of a match of the pattern that starts at position i, <<>> when there is none
match_at(s, i, pattern) ==
    IF ~starts_with(s, i, pattern.word) THEN <<>>
    ELSE LET j == i + Len(pattern.word)
         IN  IF j <= Len(s) /\ s[j] \in pattern.seps /\ digits_from(s, j + 1) # <<>>
             THEN digits_from(s, j + 1)
             ELSE digits_from(s, j)

\* re.search(pattern, s): the group of the leftmost match, <<>> when there is none
RECURSIVE re_search(_, _, _)
re_search(s, i, pattern) ==
    IF i > Len(s) THEN <<>>
    ELSE IF match_at(s, i, pattern) # <<>> THEN match_at(s, i, pattern)
    ELSE re_search(s, i + 1, pattern)

\* the loop over user_patterns: the group of the first pattern that matches
RECURSIVE first_pattern_match(_, _)
first_pattern_match(filename_lower, k) ==
    IF k > Len(user_patterns) THEN <<>>
    ELSE IF re_search(filename_lower, 1, user_patterns[k]) # <<>>
         THEN re_search(filename_lower, 1, user_patterns[k])
         ELSE first_pattern_match(filename_lower, k + 1)

\* the file names of the model, each with hashlib.md5(filename.encode()).hexdigest()[:8]
FileNameTable ==
    <<
      [filename |-> <<"u", "s", "e", "r", "_", "1", "2", ".", "c", "s", "v">>,
       md5 |-> <<"0", "f", "e", "1", "f", "3", "1", "3">>],
      [filename |-> <<"d", "r", "i", "v", "e", "r", "-", "7", ".", "x", "l", "s", "x">>,
       md5 |-> <<"e", "6", "8", "8", "7", "2", "9", "4">>],
      [filename |-> <<"d", "r", "i", "v", "e", "r", "7", "_", "u", "s", "e", "r", "3", ".", "c", "s", "v">>,
       md5 |-> <<"1", "8", "c", "6", "a", "9", "0", "8">>],
      [filename |-> <<"u", "5", ".", "c", "s", "v">>,
       md5 |-> <<"6", "3", "2", "d", "4", "5", "4", "a">>],
      [filename |-> <<"o", "b", "d", "2", ".", "c", "s", "v">>,
       md5 |-> <<"3", "3", "2", "1", "8", "6", "f", "0">>],
      [filename |-> <<"d", "0", ".", "c", "s", "v">>,
       md5 |-> <<"a", "2", "9", "a", "c", "0", "7", "2">>],
      [filename |-> <<"t", "r", "i", "p", ".", "c", "s", "v">>,
       md5 |-> <<"2", "9", "1", "f", "2", "f", "e", "c">>],
      [filename |-> <<"u", "s", "e", "r", "_", "x", ".", "c", "s", "v">>,
       md5 |-> <<"3", "4", "d", "2", "c", "5", "f", "8">>],
      [filename |-> <<"M", "P", "0", "9", "A", "B", "1", "2", "3", "4", ".", "c", "s", "v">>,
       md5 |-> <<"5", "1", "a", "3", "d", "5", "b", "4">>],
      [filename |-> <<"k", "a", "0", "1", "a", "d", "5", "0", "0", "0", ".", "c", "s", "v">>,
       md5 |-> <<"3", "2", "7", "7", "3", "e", "4", "b">>],
      [filename |-> <<"U", "S", "E", "R", "1", "2", ".", "X", "L", "S">>,
       md5 |-> <<"d", "5", "5", "5", "3", "f", "8", "d">>],
      [filename |-> <<"m", "p", "0", "9", "a", "b", "1", "2", ".", "x", "l", "s">>,
       md5 |-> <<"9", "c", "8", "6", "4", "d", "4", "b">>],
      [filename |-> <<"t", "r", "i", "p", "_", "l", "o", "g", "_", "2", "8", "1", "2", "9", "8", ".", "c", "s", "v">>,
       md5 |-> <<"0", "2", "1", "1", "0", "7", "f", "4">>]
    >>

FileNames == { FileNameTable[k].filename : k \in DOMAIN FileNameTable }

md5_hexdigest_8(filename) ==
    FileNameTable[CHOOSE k \in DOMAIN FileNameTable : FileNameTable[k].filename = filename].md5

HexDigits ==
    <<"0", "1", "2", "3", "4", "5", "6", "7", "8", "9", "a", "b", "c", "d", "e", "f">>

\* int(text, 16) % m, the remainder taken digit by digit
RECURSIVE int16_mod(_, _)
int16_mod(s, m) ==
    IF s = <<>> THEN 0
    ELSE (int16_mod(SubSeq(s, 1, Len(s) - 1), m) * 16
          + (CHOOSE v \in 0..15 : HexDigits[v + 1] = s[Len(s)])) % m

\* lines 291-292
generated_user_id(filename) == int16_mod(md5_hexdigest_8(filename), 1000) + 1

extract_user_id(d, filename) ==
    LET first_user == SelectSeq(d.user_id, LAMBDA c : ~isnull(c))
        group == first_pattern_match(lower(filename), 1)
    IN  IF first_user # <<>> THEN first_user[1].val
        ELSE IF group # <<>> THEN int_digits(group)
        ELSE generated_user_id(filename)

\* s.replace(old, '')
RECURSIVE str_remove(_, _)
str_remove(s, old) ==
    IF s = <<>> THEN <<>>
    ELSE IF starts_with(s, 1, old) THEN str_remove(SubSeq(s, Len(old) + 1, Len(s)), old)
    ELSE <<s[1]>> \o str_remove(Tail(s), old)

\* filename.replace('.csv', '').replace('.xlsx', '').replace('.xls', '')
filename_clean(filename) ==
    str_remove(str_remove(str_remove(filename, <<".", "c", "s", "v">>),
                          <<".", "x", "l", "s", "x">>),
               <<".", "x", "l", "s">>)

\* [A-Z]{2}\d{2}[A-Z]{2}\d{4} under re.IGNORECASE, at position i
vehicle_pattern_at(s, i) ==
    /\ i + 9 <= Len(s)
    /\ \A k \in {0, 1, 4, 5} : is_lower(s[i + k]) \/ is_upper(s[i + k])
    /\ \A k \in {2, 3, 6, 7, 8, 9} : s[i + k] \in Digits

\* re.search of the vehicle pattern: group 1 of the leftmost match, <<>> when there is none
RECURSIVE vehicle_search(_, _)
vehicle_search(s, i) ==
    IF i > Len(s) THEN <<>>
    ELSE IF vehicle_pattern_at(s, i) THEN SubSeq(s, i, i + 9)
    ELSE vehicle_search(s, i + 1)

\* str.strip()
RECURSIVE strip(_)
strip(s) ==
    IF s = <<>> THEN <<>>
    ELSE IF is_whitespace(s[1]) THEN strip(Tail(s))
    ELSE IF is_whitespace(s[Len(s)]) THEN strip(SubSeq(s, 1, Len(s) - 1))
    ELSE s

state_codes ==
    << <<"M", "P">>, <<"M", "H">>, <<"D", "L">>, <<"K", "A">>, <<"T", "N">>,
       <<"U", "P">>, <<"G", "J">>, <<"R", "J">>, <<"W", "B">>, <<"A", "P">> >>

\* The generator of the random module is known by the seed it was given and
\* the number of values drawn since: its k-th next value below n is a fixed
\* function of the two (a small mixing function stands for the generator's).
random_below(rs, k, n) == (rs.seed * 7919 + (rs.pos + k) * 104729 + 13) % n

\* f"{n:02d}"
format_02d(n) == IF n < 10 THEN <<"0">> \o str_int(n) ELSE str_int(n)

\* lines 258-263: the plate drawn from the random module in state rs
generated_vehicle_number(rs) ==
    LET state == state_codes[random_below(rs, 0, Len(state_codes)) + 1]
        district == format_02d(1 + random_below(rs, 1, 99))
        series == <<UpperLetters[random_below(rs, 2, 26) + 1],
                    UpperLetters[random_below(rs, 3, 26) + 1]>>
        number4 == str_int(1000 + random_below(rs, 4, 9000))
    IN  state \o district \o <<"-">> \o series \o number4

\* extract_vehicle_number with the random module in state rs: the plate, the
\* source that gave it, the state of the random module after the call and the
\* seed given to numpy's generator (-1 when none was)
resolve_vehicle_number(d, filename, user_id, rs) ==
    LET from_data == IF d.vehicle_number # <<>>
                     THEN standardize_vehicle_number(d.vehicle_number[1]) ELSE <<>>
        from_name == standardize_vehicle_number(strip(vehicle_search(filename_clean(filename), 1)))
    IN  IF from_data # <<>>
        THEN [vehicle_number |-> from_data, by |-> "column", random_state |-> rs,
              np_random_seed |-> -1]
        ELSE IF from_name # <<>> /\ Len(from_name) >= 4
        THEN [vehicle_number |-> from_name, by |-> "filename", random_state |-> rs,
              np_random_seed |-> -1]
        ELSE [vehicle_number |-> generated_vehicle_number(rs), by |-> "generator",
              random_state |-> [rs EXCEPT !.pos = @ + 5],
              np_random_seed |-> user_id]

(***************************************************************************)
(* SpecIdentity: for one file, extract_user_id and extract_vehicle_number  *)
(* are called, each up to MaxCalls times, while other code of the run      *)
(* draws from the random module.                                           *)
(***************************************************************************)
UserIdColumns == {<<>>, <<NaN, NaN>>, <<NaN, Num(5), Num(7)>>, <<Num(7), Num(5)>>, <<Num(0)>>}

\* no column; a first cell that cleans to a plate; 'nan', the text of a missing
\* cell; a first cell that standardizes to the empty text
VehicleColumns ==
    {<<>>, <<Plate1, Plate2>>, << <<"n", "a", "n">>, Plate1 >>, << <<"#">>, Plate1 >>}

\* seeds the random module may be in when the file is reached
Seeds == {1, 2}

InitIdentity ==
    /\ \E filename \in FileNames, user_id \in UserIdColumns, vehicle_number \in VehicleColumns,
          seed \in Seeds :
        identity = [NoIdentity EXCEPT
                       !.filename = filename,
                       !.df = [user_id |-> user_id, vehicle_number |-> vehicle_number],
                       !.random_state = [seed |-> seed, pos |-> 0]]
    /\ IdleDetect
    /\ IdlePlate
    /\ IdleCols
    /\ IdleBatch
    /\ IdleRace
    /\ IdleSynth
    /\ IdleValidate
    /\ IdleIngest
    /\ IdleLast

ExtractUserId ==
    /\ Len(identity.user_ids) < MaxCalls
    /\ identity' = [identity EXCEPT
                       !.user_ids = Append(@, extract_user_id(identity.df, identity.filename))]
    /\ UNCHANGED othersIdentity

ExtractVehicleNumber ==
    /\ identity.user_ids # <<>>
    /\ Len(identity.vehicle_numbers) < MaxCalls
    /\ LET r == resolve_vehicle_number(identity.df, identity.filename, identity.user_ids[1],
                                       identity.random_state)
       IN  identity' = [identity EXCEPT
                           !.vehicle_numbers = Append(@, [vehicle_number |-> r.vehicle_number,
                                                          by |-> r.by]),
                           !.random_state = r.random_state,
                           !.np_random_seed = IF r.np_random_seed = -1 THEN @
                                              ELSE r.np_random_seed]
    /\ UNCHANGED othersIdentity

\* a value drawn from the random module by other code of the run (random.uniform
\* of process_trip_segment, of generate_realistic_field)
RandomDraw ==
    /\ identity.drawn < MaxDraws
    /\ identity' = [identity EXCEPT !.drawn = @ + 1, !.random_state.pos = @ + 1]
    /\ UNCHANGED othersIdentity

NextIdentity == ExtractUserId \/ ExtractVehicleNumber \/ RandomDraw

SpecIdentity == InitIdentity /\ [][NextIdentity]_vars

(***************************************************************************)
(* Claims about the identity of a file (SpecIdentity).                     *)
(***************************************************************************)
\* the groups the patterns of the words user and driver capture in the file name
UserDriverNumbers(filename) ==
    { int_digits(re_search(lower(filename), 1, user_patterns[k])) :
        k \in { j \in 1..2 : re_search(lower(filename), 1, user_patterns[j]) # <<>> } }

NumericUserIds(d) == SelectSeq(d.user_id, LAMBDA c : ~isnull(c))

\* C18: every call of extract_user_id returns the first numeric value of the
\* user_id column when it has one; else a number captured by a user or
\* driver pattern of the file name when it has one; else the id derived from
\* the hash of the file name, which lies in 1..1000; and all calls for the
\* file return the same id.
C18_UserIdPreference ==
    \A k \in DOMAIN identity.user_ids :
        LET r == identity.user_ids[k]
        IN  /\ r = identity.user_ids[1]
            /\ IF NumericUserIds(identity.df) # <<>>
               THEN r = NumericUserIds(identity.df)[1].val
               ELSE IF UserDriverNumbers(identity.filename) # {}
               THEN r \in UserDriverNumbers(identity.filename)
               ELSE r = generated_user_id(identity.filename) /\ r \in 1..1000

GeneratorUsed(k) == identity.vehicle_numbers[k].by = "generator"

\* C19: when neither the column nor the file name gives a plate, two calls
\* of extract_vehicle_number with the same user id return the same plate,
\* whatever was drawn from the random module before each of them.
C19_GeneratedPlateDeterministic ==
    \A j, k \in DOMAIN identity.vehicle_numbers :
        (GeneratorUsed(j) /\ GeneratorUsed(k))
            => identity.vehicle_numbers[j].vehicle_number
                   = identity.vehicle_numbers[k].vehicle_number

(***************************************************************************)
(* process_trip_segment.  Of a segment the model keeps the columns the     *)
(* function reads for the fields validate_trip_data checks; of trip_data   *)
(* it keeps those fields and the identity.  Speeds are in km/h, durations  *)
(* in whole minutes, distances of trip_data in tenths of a kilometre.      *)
(***************************************************************************)
\* f"{filename}_{trip_index}_{user_id}"
unique_string(filename, trip_index, user_id) ==
    filename \o <<"_">> \o str_int(trip_index) \o <<"_">> \o str_int(user_id)

\* the strings generate_trip_id hashes in the model, each with
\* hashlib.md5(unique_string.encode()).hexdigest()[:8]
TripStringTable ==
    <<
      [unique_string |-> <<"u", "s", "e", "r", "_", "1", "2", ".", "c", "s", "v", "_", "0", "_", "1", "2">>,
       md5 |-> <<"1", "7", "a", "4", "4", "4", "b", "d">>],
      [unique_string |-> <<"u", "s", "e", "r", "_", "1", "2", ".", "c", "s", "v", "_", "1", "_", "1", "2">>,
       md5 |-> <<"a", "7", "5", "a", "7", "f", "0", "8">>],
      [unique_string |-> <<"u", "s", "e", "r", "_", "1", "2", ".", "c", "s", "v", "_", "0", "_", "7">>,
       md5 |-> <<"f", "b", "f", "2", "5", "8", "5", "6">>],
      [unique_string |-> <<"u", "s", "e", "r", "_", "1", "2", ".", "c", "s", "v", "_", "1", "_", "7">>,
       md5 |-> <<"2", "3", "4", "8", "c", "1", "a", "0">>],
      [unique_string |-> <<"M", "P", "0", "9", "A", "B", "1", "2", "3", "4", ".", "c", "s", "v", "_", "0", "_", "5", "7", "3">>,
       md5 |-> <<"4", "1", "6", "d", "e", "1", "2", "2">>],
      [unique_string |-> <<"M", "P", "0", "9", "A", "B", "1", "2", "3", "4", ".", "c", "s", "v", "_", "1", "_", "5", "7", "3">>,
       md5 |-> <<"9", "1", "5", "f", "6", "b", "c", "3">>],
      [unique_string |-> <<"M", "P", "0", "9", "A", "B", "1", "2", "3", "4", ".", "c", "s", "v", "_", "0", "_", "7">>,
       md5 |-> <<"2", "9", "4", "7", "5", "4", "c", "6">>],
      [unique_string |-> <<"M", "P", "0", "9", "A", "B", "1", "2", "3", "4", ".", "c", "s", "v", "_", "1", "_", "7">>,
       md5 |-> <<"f", "7", "1", "c", "1", "0", "c", "a">>],
      [unique_string |-> <<"t", "r", "i", "p", "_", "l", "o", "g", "_", "2", "8", "1", "2", "9", "8", ".", "c", "s", "v", "_", "0", "_", "5", "8", "1">>,
       md5 |-> <<"c", "f", "f", "d", "8", "c", "2", "c">>],
      [unique_string |-> <<"t", "r", "i", "p", "_", "l", "o", "g", "_", "2", "8", "1", "2", "9", "8", ".", "c", "s", "v", "_", "1", "_", "5", "8", "1">>,
       md5 |-> <<"3", "f", "5", "c", "1", "8", "8", "c">>],
      [unique_string |-> <<"t", "r", "i", "p", "_", "l", "o", "g", "_", "2", "8", "1", "2", "9", "8", ".", "c", "s", "v", "_", "0", "_", "7">>,
       md5 |-> <<"6", "9", "3", "2", "a", "1", "2", "4">>],
      [unique_string |-> <<"t", "r", "i", "p", "_", "l", "o", "g", "_", "2", "8", "1", "2", "9", "8", ".", "c", "s", "v", "_", "1", "_", "7">>,
       md5 |-> <<"e", "0", "6", "4", "0", "1", "2", "5">>]
    >>

md5_hexdigest_8_of_trip(u) ==
    TripStringTable[CHOOSE k \in DOMAIN TripStringTable :
                        TripStringTable[k].unique_string = u].md5

generate_trip_id(filename, trip_index, user_id) ==
    abs(int16_mod(md5_hexdigest_8_of_trip(unique_string(filename, trip_index, user_id)),
                  100000)) + 1

\* df.iloc[start_idx:end_idx + 1]: the rows of every column, the first index label
iloc(d, start_idx, end_idx) ==
    LET stop == IF end_idx + 1 > d.n THEN d.n ELSE end_idx + 1
    IN  [c \in DOMAIN d |->
            IF c = "n" THEN stop - start_idx
            ELSE IF c = "columns" THEN d.columns
            ELSE IF c = "first_index" THEN start_idx
            ELSE IF Len(d[c]) = 0 THEN <<>>
            ELSE SubSeq(d[c], start_idx + 1, stop)]

\* a value of trip_data that is a date or a text (what it says is not read)
not_numeric == [kind |-> "str", v |-> 0]

\* a cell of a numeric column as a value of trip_data
value_of(cell) == IF isnull(cell) THEN float_nan ELSE number(cell.val)

\* col_num.sum() and col_num.max(), folded by halves (the values are whole
\* numbers, so the grouping does not change the result)
RECURSIVE sum_cells(_)
sum_cells(col) ==
    IF col = <<>> THEN 0
    ELSE IF Len(col) = 1 THEN col[1].val
    ELSE LET half == Len(col) \div 2
         IN  sum_cells(SubSeq(col, 1, half)) + sum_cells(SubSeq(col, half + 1, Len(col)))

RECURSIVE max_cells(_)
max_cells(col) ==
    IF Len(col) = 1 THEN col[1].val
    ELSE LET half == Len(col) \div 2
             left == max_cells(SubSeq(col, 1, half))
             right == max_cells(SubSeq(col, half + 1, Len(col)))
         IN  IF left > right THEN left ELSE right

\* None, or the value of the operation on the column (a mean in whole units)
safe_numeric_operation(d, colname, operation) ==
    IF ~safe_series(d, colname) THEN None
    ELSE LET col_num == d[colname]
             nums == SelectSeq(col_num, LAMBDA c : ~isnull(c))
         IN  IF nums = <<>> THEN None
             ELSE IF operation = "last" THEN value_of(col_num[Len(col_num)])
             ELSE IF operation = "first" THEN value_of(col_num[1])
             ELSE IF operation = "mean" THEN number(sum_cells(nums) \div Len(nums))
             ELSE IF operation = "max" THEN number(max_cells(nums))
             ELSE None

segment_required_fields == <<"speed", "rpm", "throttle">>

\* the values generate_realistic_field may fill a column with: the ends of
\* the range it clips each field to
DrawnValues == [speed : {0, 150}, rpm : {600, 7000}, throttle : {0, 100}]

\* the series generate_realistic_field returns for the field, one value per row
generated_series(field_name, d, drawn) == [i \in 1..d.n |-> Num(drawn[field_name])]

\* lines 558-566: the loop that fills the missing fields; generated_fields
\* lists each field filled, with whether a speed column was there to derive it from
RECURSIVE generate_missing(_, _, _, _)
generate_missing(d, k, drawn, generated_fields) ==
    IF k > Len(segment_required_fields)
    THEN [df_segment |-> d, generated_fields |-> generated_fields]
    ELSE LET field == segment_required_fields[k]
         IN  IF safe_series(d, field)
             THEN generate_missing(d, k + 1, drawn, generated_fields)
             ELSE generate_missing(
                      [d EXCEPT ![field] = generated_series(field, d, drawn),
                                !.columns = @ \cup {field}],
                      k + 1, drawn,
                      Append(generated_fields,
                             [field_name |-> field,
                              speed |-> IF field # "speed" /\ safe_series(d, "speed")
                                        THEN "present" ELSE "absent"]))

\* a record that keeps the plate as the username is written
trip_vehicle_number_lower(vehicle_number) == lower(vehicle_number)

\* lines 737-738
trip_vehicle_number(vehicle_number) == standardize_vehicle_number(vehicle_number)

\* lines 590-594, in tenths of a kilometre
trip_distance_of(d, avg_speed) ==
    LET last == safe_numeric_operation(d, "trip_distance", "last")
        estimated == (avg_speed.v * d.n) \div 360
    IN  IF last = None \/ le(last, 0)
        THEN number(IF estimated < 1 THEN 1 ELSE estimated)
        ELSE IF last = float_nan THEN float_nan ELSE number(10 * last.v)

\* lines 596-599, in whole minutes
trip_duration_of(d) ==
    LET last == safe_numeric_operation(d, "trip_time", "last")
    IN  IF last = None \/ le(last, 0)
        THEN number(IF d.n \div 60 < 1 THEN 1 ELSE d.n \div 60)
        ELSE last

EmptyDict == [k \in {} |-> None]

failed(trip_id, generated_fields, error_msg) ==
    [ok |-> FALSE, trip_id |-> trip_id, trip_data |-> EmptyDict,
     generated_fields |-> generated_fields, error_msg |-> error_msg]

\* the pair the function returns (ok: trip_data is not None), with the trip id
\* it logged and the fields it generated
process_trip_segment(df_segment, filename, user_id, trip_index, vehicle_number, drawn) ==
    LET trip_id == generate_trip_id(filename, trip_index, user_id)
        g == generate_missing(df_segment, 1, drawn, <<>>)
        d == g.df_segment
        avg_speed == safe_numeric_operation(d, "speed", "mean")
        max_speed == safe_numeric_operation(d, "speed", "max")
        max_rpm == safe_numeric_operation(d, "rpm", "max")
        throttle_mean == safe_numeric_operation(d, "throttle", "mean")
    IN  IF None \in {avg_speed, max_speed, max_rpm, throttle_mean}
        THEN failed(trip_id, g.generated_fields,
                    <<"Failed to extract core metrics after field generation">>)
        ELSE
        LET built == [user_id |-> number(user_id),
                      trip_date |-> not_numeric,
                      distance_km |-> trip_distance_of(d, avg_speed),
                      avg_speed_kmph |-> avg_speed,
                      score |-> not_numeric,
                      trip_duration |-> trip_duration_of(d),
                      vehicle_number |-> trip_vehicle_number(vehicle_number)]
            v == validate_trip_data(built)
        IN  IF ~v.is_valid
            THEN failed(trip_id, g.generated_fields,
                        <<"Validation failed">> \o [k \in DOMAIN v.errors |-> v.errors[k][1]])
            ELSE [ok |-> TRUE, trip_id |-> trip_id, trip_data |-> v.trip_data,
                  generated_fields |-> g.generated_fields, error_msg |-> <<>>]

\* {k: v for k, v in trip_data.items() if k != 'vehicle_number'}
db_trip_data(td) == [k \in DOMAIN td \ {"vehicle_number"} |-> td[k]]

(***************************************************************************)
(* SpecIngest: process_file_with_error_handling on one file that was read. *)
(* The columns carry their canonical names and the identity store is       *)
(* empty; db.add_trip accepts every row and numbers it.                    *)
(***************************************************************************)
OneTrip == <<Moving(MIN_SEGMENT_ROWS)>>
TwoTrips == <<Moving(MIN_SEGMENT_ROWS), AfterGap(MaxSegmentRows)>>
LongTrip == <<Moving(MIN_TRIP_DURATION_MINUTES * 60)>>
IngestBlocks == {<<>>, OneTrip, TwoTrips, LongTrip}

\* the table read from the file: the rows of the blocks, and in every row the
\* same trip_time, user_id and vehicle_number
FileTable(bs, columns, trip_time, user_id, vehicle_number) ==
    LET t == Table(bs, columns \cap DetectColumns)
        col(name, v) == IF name \in columns THEN [i \in 1..t.n |-> v] ELSE <<>>
    IN  [n |-> t.n, columns |-> columns, first_index |-> 0,
         timestamp |-> t.timestamp, speed |-> t.speed, trip_distance |-> t.trip_distance,
         rpm |-> col("rpm", Num(2000)), throttle |-> col("throttle", Num(30)),
         trip_time |-> col("trip_time", trip_time),
         user_id |-> col("user_id", user_id),
         vehicle_number |-> col("vehicle_number", vehicle_number)]

PositionColumns == {"timestamp", "latitude", "longitude"}
SignalColumns == {{}, {"speed"}, {"speed", "rpm", "throttle"}}
TripTimes == {Num(MIN_TRIP_DURATION_MINUTES - 1), Num(MIN_TRIP_DURATION_MINUTES + 1)}

IngestTables ==
    { FileTable(bs, PositionColumns \cup signals \cup more, trip_time, Num(7), Plate1) :
        bs \in IngestBlocks, signals \in SignalColumns,
        more \in SUBSET {"trip_time", "user_id", "vehicle_number"}, trip_time \in TripTimes }
    \cup { FileTable(OneTrip, {"timestamp", "speed"}, NaN, NaN, <<>>) }

IngestFileNames ==
    { <<"u", "s", "e", "r", "_", "1", "2", ".", "c", "s", "v">>,
      <<"M", "P", "0", "9", "A", "B", "1", "2", "3", "4", ".", "c", "s", "v">>,
      <<"t", "r", "i", "p", "_", "l", "o", "g", "_", "2", "8", "1", "2", "9", "8", ".", "c", "s", "v">> }

InitIngest ==
    /\ \E filename \in IngestFileNames, d \in IngestTables, seed \in Seeds :
        ingest = [NoIngest EXCEPT !.pc = "call", !.filename = filename, !.df = d,
                                  !.random_state = [seed |-> seed, pos |-> 0]]
    /\ IdleDetect
    /\ IdlePlate
    /\ IdleCols
    /\ IdleBatch
    /\ IdleRace
    /\ IdleSynth
    /\ IdleValidate
    /\ IdleIdentity
    /\ IdleLast

\* lines 801-830: the basic validation, the identity and the trip boundaries
IdentifyFile ==
    /\ ingest.pc = "call"
    /\ LET d == ingest.df
           user_id == extract_user_id(d, ingest.filename)
           r == resolve_vehicle_number(d, ingest.filename, user_id, ingest.random_state)
           vehicle_number == standardize_vehicle_number(r.vehicle_number)
           tb == detect_trip_boundaries(d)
       IN  IF d.n = 0
           THEN ingest' = [ingest EXCEPT !.pc = "returned",
                                         !.errors = <<[trip |-> 0, reason |-> <<"File is empty">>]>>]
           ELSE IF Cardinality(d.columns) < 3
           THEN ingest' = [ingest EXCEPT !.pc = "returned",
                                         !.errors = <<[trip |-> 0, reason |-> <<"Too few columns">>]>>]
           ELSE ingest' = [ingest EXCEPT
                              !.pc = IF tb = <<>> THEN "returned" ELSE "segment",
                              !.user_id = user_id,
                              !.vehicle_number = vehicle_number,
                              !.by = r.by,
                              !.random_state = r.random_state,
                              !.users = ensure_user_exists(@, user_id, vehicle_number),
                              !.trip_boundaries = tb]
    /\ UNCHANGED othersIngest

after_trip(c) == IF c.trip_index + 1 < Len(c.trip_boundaries) THEN "segment" ELSE "returned"

\* one pass of the segment loop up to the call of db.add_trip
ProcessTripSegment ==
    /\ ingest.pc = "segment"
    /\ LET b == ingest.trip_boundaries[ingest.trip_index + 1]
           df_segment == iloc(ingest.df, b[1], b[2])
       IN  IF df_segment.n < MIN_SEGMENT_ROWS
           THEN ingest' = [ingest EXCEPT
                              !.errors = Append(@, [trip |-> ingest.trip_index + 1,
                                                    reason |-> <<"Trip too short">>]),
                              !.trip_index = @ + 1,
                              !.pc = after_trip(ingest)]
           ELSE \E drawn \in DrawnValues :
                    LET r == process_trip_segment(df_segment, ingest.filename, ingest.user_id,
                                                  ingest.trip_index, ingest.vehicle_number, drawn)
                    IN  IF r.ok
                        THEN ingest' = [ingest EXCEPT
                                           !.records = Append(@, [trip_index |-> ingest.trip_index,
                                                                  trip_id |-> r.trip_id,
                                                                  trip_data |-> r.trip_data,
                                                                  generated_fields |-> r.generated_fields]),
                                           !.pc = "persist"]
                        ELSE ingest' = [ingest EXCEPT
                                           !.errors = Append(@, [trip |-> ingest.trip_index + 1,
                                                                 reason |-> r.error_msg]),
                                           !.trip_index = @ + 1,
                                           !.pc = after_trip(ingest)]
    /\ UNCHANGED othersIngest

\* db.add_trip(**db_trip_data): the row gets the next id of the trips table
AddTripRow ==
    /\ ingest.pc = "persist"
    /\ LET record == ingest.records[Len(ingest.records)]
       IN  ingest' = [ingest EXCEPT
                         !.trips = Append(@, [id |-> Len(ingest.trips) + 1,
                                              data |-> db_trip_data(record.trip_data)]),
                         !.processed_trips = Append(@, ingest.trip_index + 1),
                         !.trip_index = @ + 1,
                         !.pc = after_trip(ingest)]
    /\ UNCHANGED othersIngest

NextIngest == IdentifyFile \/ ProcessTripSegment \/ AddTripRow

SpecIngest == InitIngest /\ [][NextIngest]_vars

(***************************************************************************)
(* Claims about one file (SpecIngest).                                     *)
(***************************************************************************)
\* the file holds two trips, the second 45 minutes after the first, each of
\* enough rows, and valid data otherwise: in particular a recorded trip_time
\* of at least the minimum duration
TwoValidTrips ==
    /\ \E signals \in SignalColumns, more \in SUBSET {"user_id", "vehicle_number"} :
           ingest.df = FileTable(TwoTrips, PositionColumns \cup signals \cup more \cup {"trip_time"},
                                 Num(MIN_TRIP_DURATION_MINUTES + 1), Num(7), Plate1)

\* C14: when a file of two valid trips 45 minutes apart has been processed,
\* exactly two trip records were persisted, the trip ids generated for the
\* two are distinct, and the two carry the same user_id and vehicle_number.
C14_TwoTripsTwoRecords ==
    (ingest.pc = "returned" /\ TwoValidTrips) =>
        /\ Len(ingest.trips) = 2
        /\ Len(ingest.records) = 2
        /\ ingest.records[1].trip_id # ingest.records[2].trip_id
        /\ ingest.records[1].trip_data["user_id"] = ingest.records[2].trip_data["user_id"]
        /\ ingest.records[1].trip_data["vehicle_number"]
               = ingest.records[2].trip_data["vehicle_number"]

\* the file has none of the columns speed, rpm and throttle, at least 3
\* columns and at least 5 rows, and no recorded trip_time below the minimum
NoSignalColumns ==
    /\ ingest.df.columns \cap {"speed", "rpm", "throttle"} = {}
    /\ Cardinality(ingest.df.columns) >= 3
    /\ ingest.df.n >= MIN_SEGMENT_ROWS
    /\ \A i \in DOMAIN ingest.df.trip_time :
           ingest.df.trip_time[i].val >= MIN_TRIP_DURATION_MINUTES

SynthesizedInOrder ==
    << [field_name |-> "speed", speed |-> "absent"],
       [field_name |-> "rpm", speed |-> "present"],
       [field_name |-> "throttle", speed |-> "present"] >>

\* C15: when a file without a speed, rpm or throttle column has been
\* processed, a trip record of it was persisted and no segment was skipped;
\* for every record the three fields were generated in the order speed, rpm,
\* throttle, the last two from the generated speed.
C15_MissingSignalsSynthesized ==
    (ingest.pc = "returned" /\ NoSignalColumns) =>
        /\ Len(ingest.trips) >= 1
        /\ ingest.errors = <<>>
        /\ \A k \in DOMAIN ingest.records :
               ingest.records[k].generated_fields = SynthesizedInOrder

\* C17: the trip records made from one file all carry the user_id and the
\* vehicle_number resolved for the file, and the vehicle_number is not
\* empty and is left unchanged by standardize_vehicle_number, whether the
\* column, the file name or the generator gave it.
C17_IdentityConstantPerFile ==
    \A k \in DOMAIN ingest.records :
        LET td == ingest.records[k].trip_data
        IN  /\ td["user_id"] = number(ingest.user_id)
            /\ td["vehicle_number"] = ingest.vehicle_number
            /\ td["vehicle_number"] = ingest.records[1].trip_data["vehicle_number"]
            /\ td["vehicle_number"] # <<>>
            /\ standardize_vehicle_number(td["vehicle_number"]) = td["vehicle_number"]
            /\ ingest.by \in {"column", "filename", "generator"}

C17_Witness ==
    /\ ingest.pc = "returned"
    /\ Len(ingest.records) = 2
    /\ ingest.by = "generator"
    /\ ingest.records[2].trip_data["vehicle_number"] = ingest.vehicle_number

(***************************************************************************)
(* Claims about the zero-speed method (SpecDetect).                        *)
(***************************************************************************)
\* row i (counted from 1) is a stopped row: its speed reading is at most 1
stopped_row(d, i) == fillna(d.speed, 0)[i].val <= 1

\* rows a..b (counted from 1) are a maximal run of stopped rows
MaximalStop(d, a, b) ==
    /\ \A i \in a..b : stopped_row(d, i)
    /\ (a > 1 => ~stopped_row(d, a - 1))
    /\ (b < d.n => ~stopped_row(d, b + 1))

\* C21: when the zero-speed method returns, every maximal run of more than 50
\* stopped rows that follows a moving row ends a segment at the row before the
\* run, a segment starts at the first row after the run (when there is one),
\* and no segment holds a row of the run.
C21_LongStopSplits ==
    (dpc = "returned" /\ strategy = "speed") =>
        \A a \in 2..df.n : \A b \in a..df.n :
            (MaximalStop(df, a, b) /\ b - a + 1 > ZERO_SPEED_THRESHOLD_POINTS) =>
                /\ \E k \in DOMAIN trip_boundaries : trip_boundaries[k][2] = a - 2
                /\ (b < df.n => \E k \in DOMAIN trip_boundaries : trip_boundaries[k][1] = b)
                /\ \A k \in DOMAIN trip_boundaries : \A row \in (a - 1)..(b - 1) :
                       ~(trip_boundaries[k][1] <= row /\ row <= trip_boundaries[k][2])

(***************************************************************************)
(* Claims about the segment loop of one file (SpecBatch).                  *)
(***************************************************************************)
SegmentName(k) == [file |-> file_locals.filename, trip |-> k]

ErrorsOf(k) == { i \in DOMAIN file_locals.errors : file_locals.errors[i].name = SegmentName(k) }
ListedAs(k) ==
    { i \in DOMAIN file_locals.processed_trips : file_locals.processed_trips[i] = SegmentName(k) }
RowsOf(k) == { i \in DOMAIN trips : trips[i].name = SegmentName(k) }

SegmentRows(k) == file_locals.trip_boundaries[k][2] - file_locals.trip_boundaries[k][1] + 1

\* the file's segment loop has run to its end
LoopDone == bpc = "account" /\ file_locals.trip_boundaries # <<>>

\* C22: when the segment loop of a file has ended, every segment of the file
\* was handled once, in boundary order: a segment that was too short, that
\* process_trip_segment rejected, or whose db.add_trip raised has exactly one
\* error entry and no row; every other segment has one row and one entry in
\* the list of processed trips, and that list holds nothing else.
C22_SegmentFailureIsolated ==
    LoopDone =>
        /\ \A k \in DOMAIN file_locals.trip_boundaries :
               /\ Cardinality(ErrorsOf(k)) + Cardinality(ListedAs(k)) = 1
               /\ Cardinality(RowsOf(k)) = Cardinality(ListedAs(k))
               /\ SegmentRows(k) < MIN_SEGMENT_ROWS => ErrorsOf(k) # {}
        /\ Len(file_locals.errors) + Len(file_locals.processed_trips)
               = Len(file_locals.trip_boundaries)
        /\ \A i, j \in DOMAIN file_locals.processed_trips :
               i < j => file_locals.processed_trips[i].trip < file_locals.processed_trips[j].trip
        /\ \A i, j \in DOMAIN file_locals.errors :
               i < j => file_locals.errors[i].name.trip < file_locals.errors[j].name.trip

C22_Witness ==
    /\ LoopDone
    /\ Len(file_locals.trip_boundaries) = 2
    /\ ErrorsOf(1) # {}
    /\ file_locals.errors[1].reason = "Database insertion failed"
    /\ RowsOf(1) = {}
    /\ RowsOf(2) # {}
    /\ file_locals.processed_trips = <<SegmentName(2)>>

(***************************************************************************)
(* Further claims about validate_trip_data (SpecValidate).                 *)
(***************************************************************************)
\* the upper bound each range check compares its field with
UpperBoundChecked ==
    [distance_km |-> MAX_TRIP_DISTANCE_KM,
     trip_duration |-> MAX_TRIP_DURATION_MINUTES,
     avg_speed_kmph |-> 300]

SoftBounded == DOMAIN UpperBoundChecked

\* the reason a range check appends for its field ("" where it appends none)
RangeError ==
    [distance_km |-> "", trip_duration |-> "Trip too short",
     avg_speed_kmph |-> "Invalid average speed"]

\* the value stored for the field when the record is the given one with w in it
StoredFor(field, w) == validate_trip_data([validation.given EXCEPT ![field] = w]).trip_data[field]

\* C23: for distance_km, trip_duration and avg_speed_kmph a value above the
\* upper bound of the field's range check is replaced by exactly that bound
\* and gives no error, and no smaller value that is within the range is stored
\* as more than it.
C23_ClampToNearestBound ==
    validation.pc = "returned" =>
        \A field \in SoftBounded :
            (field \in DOMAIN validation.given
             /\ gt(validation.given[field], UpperBoundChecked[field])) =>
                /\ validation.trip_data[field] = number(UpperBoundChecked[field])
                /\ \A k \in DOMAIN validation.errors :
                       validation.errors[k][1] # RangeError[field]
                /\ StoredFor(field, number(UpperBoundChecked[field])).v
                       <= validation.trip_data[field].v

\* the value of the key is a number within [lo, hi]
InRange(td, key, lo, hi) == key \in DOMAIN td /\ ge(td[key], lo) /\ le(td[key], hi)

\* C27: when validate_trip_data returns is_valid = True, the record as it
\* leaves the call has user_id, trip_date, distance_km, avg_speed_kmph and
\* score present and not None, distance_km within [MIN_TRIP_DISTANCE_KM,
\* MAX_TRIP_DISTANCE_KM], trip_duration (when the record has one) within
\* [MIN_TRIP_DURATION_MINUTES, MAX_TRIP_DURATION_MINUTES] and avg_speed_kmph
\* within [0, 300].
C27_ValidMeansWithinPolicy ==
    (validation.pc = "returned" /\ validation.is_valid) =>
        /\ \A k \in DOMAIN required_fields : has_value(validation.trip_data, required_fields[k])
        /\ InRange(validation.trip_data, "distance_km", MIN_TRIP_DISTANCE_KM, MAX_TRIP_DISTANCE_KM)
        /\ has_value(validation.trip_data, "trip_duration") =>
               InRange(validation.trip_data, "trip_duration",
                       MIN_TRIP_DURATION_MINUTES, MAX_TRIP_DURATION_MINUTES)
        /\ InRange(validation.trip_data, "avg_speed_kmph", 0, 300)

(***************************************************************************)
(* Claims about the trip total of a batch (SpecBatch).                     *)
(***************************************************************************)
RECURSIVE SumTripCounts(_)
SumTripCounts(files) ==
    IF files = <<>> THEN 0 ELSE files[1].trip_count + SumTripCounts(Tail(files))

\* C29: in the summary of a batch, total_trips is the number of rows
\* db.add_trip wrote during the run and the sum of the trip counts of the
\* files listed as processed; each listed file's trip count is the number of
\* rows written from it, and no row comes from a file that is not listed.
C29_TotalTripsIsPersisted ==
    bpc = "done" =>
        /\ summary.total_trips = Len(trips)
        /\ summary.total_trips = SumTripCounts(processed_files)
        /\ \A k \in DOMAIN processed_files :
               processed_files[k].trip_count = Cardinality(PersistedFrom(processed_files[k].filename))
        /\ \A i \in DOMAIN trips : InProcessed(trips[i].name.file)

C29_Witness ==
    /\ bpc = "done"
    /\ summary.total_trips = 2
    /\ Len(processed_files) = 2
    /\ \E k \in DOMAIN trip_error_log : trip_error_log[k].reason = "Database insertion failed"

(***************************************************************************)
(* generate_realistic_field, in whole numbers: the value random.uniform    *)
(* gave and the values np.random.normal gave, one per row, are inputs.     *)
(***************************************************************************)
\* a clip that keeps the lower limit only
np_clip_below(x, lo, hi) == IF x < lo THEN lo ELSE x

\* np.clip(x, lo, hi)
np_clip(x, lo, hi) == IF x < lo THEN lo ELSE IF x > hi THEN hi ELSE x

\* np.maximum(a, b)
np_maximum(a, b) == IF a > b THEN a ELSE b

\* lines 502-505: the loop that limits the change from one sample to the next
RECURSIVE limit_changes(_, _)
limit_changes(speed_pattern, i) ==
    IF i > Len(speed_pattern) THEN speed_pattern
    ELSE LET max_change == 5
             change == np_clip(speed_pattern[i] - speed_pattern[i - 1], -max_change, max_change)
         IN  limit_changes([speed_pattern EXCEPT ![i] = speed_pattern[i - 1] + change], i + 1)

\* lines 496-506
speed_series(d, uniform, normal) ==
    LET base_speed == uniform
        speed_pattern == [i \in 1..d.n |-> np_maximum(0, base_speed + normal[i])]
        limited == limit_changes(speed_pattern, 2)
    IN  [i \in 1..d.n |-> np_clip(limited[i], 0, 150)]

\* lines 508-523
rpm_series(d, uniform, normal) ==
    IF safe_series(d, "speed")
    THEN LET speed_num == fillna(d.speed, 30)
             base_rpm == 800
         IN  [i \in 1..d.n |-> np_clip(base_rpm + speed_num[i].val * uniform + normal[i], 600, 7000)]
    ELSE [i \in 1..d.n |-> np_clip(uniform + normal[i], 600, 7000)]

\* lines 525-541 (speed_num * 0.3 in whole units)
throttle_series(d, uniform, normal) ==
    IF safe_series(d, "speed")
    THEN LET speed_num == fillna(d.speed, 0)
             speed_changes == [i \in 1..d.n |->
                                  IF i = 1 THEN 0 ELSE speed_num[i].val - speed_num[i - 1].val]
             base_throttle == [i \in 1..d.n |->
                                  IF speed_changes[i] > 0 THEN speed_changes[i] * 5 + 20
                                  ELSE np_maximum(10, (speed_num[i].val * 3) \div 10)]
         IN  [i \in 1..d.n |-> np_clip(base_throttle[i] + normal[i], 0, 100)]
    ELSE [i \in 1..d.n |-> np_clip(uniform + normal[i], 0, 100)]

\* the series returned for a segment that is not empty
generate_realistic_field(field_name, d, uniform, normal) ==
    IF field_name = "speed" THEN speed_series(d, uniform, normal)
    ELSE IF field_name = "rpm" THEN rpm_series(d, uniform, normal)
    ELSE throttle_series(d, uniform, normal)

\* the limits of random.uniform in each branch
uniform_limits(field_name, d) ==
    IF field_name = "speed" THEN {30, 80}
    ELSE IF field_name = "rpm" THEN (IF safe_series(d, "speed") THEN {40, 60} ELSE {1500, 3000})
    ELSE (IF safe_series(d, "speed") THEN {0} ELSE {20, 60})

\* the standard deviation handed to np.random.normal in each branch
normal_scale(field_name, d) ==
    IF field_name = "speed" THEN 15
    ELSE IF field_name = "rpm" THEN (IF safe_series(d, "speed") THEN 200 ELSE 500)
    ELSE (IF safe_series(d, "speed") THEN 10 ELSE 20)

(***************************************************************************)
(* SpecSynthesis: one call of generate_realistic_field; the normal draws   *)
(* are a whole number of standard deviations, far ones included.           *)
(***************************************************************************)
Deviations == {-10, 0, 10}

SeriesLengths == MIN_SEGMENT_ROWS..MaxSegmentRows

\* a segment without a speed column, or with one that holds a gap, stops and
\* fast rows
SeriesSegments ==
    { [n |-> n, columns |-> {}, speed |-> <<>>] : n \in SeriesLengths }
    \cup { [n |-> n, columns |-> {"speed"},
            speed |-> [i \in 1..n |-> IF i = 1 THEN NaN
                                     ELSE IF i % 2 = 0 THEN Num(150) ELSE Num(0)]] :
             n \in SeriesLengths }

InitSynthesis ==
    /\ \E field_name \in SynthFields, d \in SeriesSegments :
        \E uniform \in uniform_limits(field_name, d), steps \in [1..d.n -> Deviations] :
            synthesis = [NoSynthesis EXCEPT
                            !.pc = "call", !.field_name = field_name, !.df_segment = d,
                            !.uniform = uniform,
                            !.normal = [i \in 1..d.n |-> steps[i] * normal_scale(field_name, d)]]
    /\ IdleDetect
    /\ IdlePlate
    /\ IdleCols
    /\ IdleBatch
    /\ IdleRace
    /\ IdleSynth
    /\ IdleValidate
    /\ IdleIdentity
    /\ IdleIngest
    /\ IdleExtract

GenerateRealisticField ==
    /\ synthesis.pc = "call"
    /\ synthesis' = [synthesis EXCEPT
                        !.pc = "returned",
                        !.returned = generate_realistic_field(synthesis.field_name, synthesis.df_segment,
                                                              synthesis.uniform, synthesis.normal)]
    /\ UNCHANGED othersSynthesis

NextSynthesis == GenerateRealisticField

SpecSynthesis == InitSynthesis /\ [][NextSynthesis]_vars

\* every value of the series is within [lo, hi]
SeriesWithin(s, lo, hi) == \A i \in DOMAIN s : lo <= s[i] /\ s[i] <= hi

\* C26: the series generate_realistic_field returns has one value per row of
\* the segment; a speed series lies in [0, 150] with consecutive values at
\* most 5 apart, an rpm series lies in [600, 7000], a throttle series lies in
\* [0, 100], whatever the draws.
C26_SeriesWithinBounds ==
    synthesis.pc = "returned" =>
        /\ Len(synthesis.returned) = synthesis.df_segment.n
        /\ synthesis.field_name = "speed" =>
               /\ SeriesWithin(synthesis.returned, 0, 150)
               /\ \A i \in 2..Len(synthesis.returned) :
                      /\ synthesis.returned[i] - synthesis.returned[i - 1] <= 5
                      /\ synthesis.returned[i - 1] - synthesis.returned[i] <= 5
        /\ synthesis.field_name = "rpm" => SeriesWithin(synthesis.returned, 600, 7000)
        /\ synthesis.field_name = "throttle" => SeriesWithin(synthesis.returned, 0, 100)

\* a speed series whose first draw was far below zero and whose second was
\* far above the upper limit: it starts at 0 and rises by the largest step
C26_Witness ==
    /\ synthesis.pc = "returned"
    /\ synthesis.field_name = "speed"
    /\ synthesis.uniform + synthesis.normal[1] < 0
    /\ synthesis.uniform + synthesis.normal[2] > 150
    /\ synthesis.returned[1] = 0
    /\ synthesis.returned[2] = 5

(***************************************************************************)
(* process_trip_segment from its core metrics to the record it returns     *)
(* (lines 573-745), in whole numbers.  The record holds the keys the       *)
(* claims below read; coordinates are in hundredths of a degree, distances *)
(* in tenths of a kilometre.  Each value drawn from the random module is   *)
(* the next value of its generator, whose state goes from call to call.    *)
(***************************************************************************)
\* a str value: kind holds the text
text(s) == [kind |-> s, v |-> 0]

\* what Python's `or` and `if x` take for false among the values met here
falsy(x) == x = None \/ x = number(0)

\* the k-th next random.random_uniform(lo, hi) / random.choice of the generator in state rs
random_uniform(rs, k, lo, hi) == number(lo + random_below(rs, k, hi - lo + 1))

\* lines 581-586: (speed_num.diff() < -10).sum() over the numeric speeds
brake_events_of(d) ==
    LET speed_num == SelectSeq(d.speed, LAMBDA c : ~isnull(c))
    IN  Cardinality({ i \in 2..Len(speed_num) : speed_num[i].val - speed_num[i - 1].val < -10 })

\* lines 639-661: the driver's rating when the column exists, else the label
\* of the weighted risk factors
score_of(d, max_rpm, brake_events, avg_speed, throttle_mean) ==
    IF "driver_rating" \in d.columns
    THEN (IF d.n > 0 THEN d.driver_rating[1] ELSE text("Good"))
    ELSE LET risk_factors == (IF max_rpm.v > 5000 THEN 2 ELSE 0)
                             + (IF brake_events > 5 THEN 2 ELSE 0)
                             + (IF avg_speed.v > 80 THEN 1 ELSE 0)
                             + (IF throttle_mean.v > 70 THEN 1 ELSE 0)
         IN  IF risk_factors >= 3 THEN text("Risky")
             ELSE IF risk_factors >= 1 THEN text("Average")
             ELSE text("Good")

\* lines 704-706: f"{latitude},{longitude}" if latitude and longitude else None
location(latitude, longitude) ==
    IF falsy(latitude) \/ falsy(longitude) THEN None
    ELSE IF latitude = float_nan \/ longitude = float_nan THEN text("nan")
    ELSE [kind |-> "location", v |-> latitude.v * 100000 + longitude.v]

\* x or y
or_else(x, y) == IF falsy(x) THEN y ELSE x

\* the built record with one more field: its value, whether the column or the
\* fallback gave it, and the number of values the fallback drew
with_field(t, name, value, by, drawn) ==
    [t EXCEPT !.trip_data[name] = value, !.by[name] = by, !.drawn = @ + drawn]

from_column(d, colname) == safe_numeric_operation(d, colname, "mean")

\* lines 621-636 for a segment without a fuel_level column, in thousandths of
\* a litre
fuel_consumed_of(trip_distance, max_rpm, brake_events) ==
    LET base_consumption_rate == IF max_rpm.v > 4000 \/ brake_events > 5 THEN 12
                                 ELSE IF max_rpm.v < 3000 /\ brake_events <= 2 THEN 6
                                 ELSE 8
    IN  IF trip_distance = float_nan THEN float_nan
        ELSE number(np_maximum(100, trip_distance.v * base_consumption_rate))

\* lines 573-599, 621-661 and 709-734 for a segment that holds the three
\* required columns: the record with the fields that take no draw; the fields
\* below are filled in after
core_fields(d, user_id, vehicle_number) ==
    LET avg_speed == safe_numeric_operation(d, "speed", "mean")
        max_rpm == safe_numeric_operation(d, "rpm", "max")
        throttle_mean == safe_numeric_operation(d, "throttle", "mean")
        brake_events == brake_events_of(d)
        trip_distance == trip_distance_of(d, avg_speed)
    IN  [trip_data |->
            [user_id |-> number(user_id),
             trip_date |-> not_numeric,
             distance_km |-> trip_distance,
             avg_speed_kmph |-> avg_speed,
             max_speed |-> safe_numeric_operation(d, "speed", "max"),
             max_rpm |-> max_rpm,
             fuel_consumed |-> fuel_consumed_of(trip_distance, max_rpm, brake_events),
             brake_events |-> number(brake_events),
             steering_angle |-> None,
             angular_velocity |-> None,
             gps_path |-> None,
             distance |-> trip_distance,
             avg_speed |-> avg_speed,
             score |-> score_of(d, max_rpm, brake_events, avg_speed, throttle_mean),
             acceleration |-> None,
             gear_position |-> None,
             tire_pressure |-> None,
             engine_load |-> None,
             throttle_position |-> throttle_mean,
             brake_pressure |-> None,
             trip_duration |-> trip_duration_of(d),
             start_location |-> None,
             end_location |-> None,
             vehicle_number |-> trip_vehicle_number(vehicle_number)],
         by |-> [f \in {"steering_angle", "angular_velocity", "acceleration", "gear_position",
                        "tire_pressure", "engine_load", "brake_pressure"} |-> ""],
         latitude |-> None, longitude |-> None, np_random_seed |-> -1, drawn |-> 0]

\* lines 602-609 and 704-706: the start coordinates, generated when either is
\* missing, from the random module in state rs
coordinates(d, rs, user_id, trip_index, t) ==
    LET lat0 == safe_numeric_operation(d, "latitude", "first")
        lon0 == safe_numeric_operation(d, "longitude", "first")
    IN  IF lat0 = None \/ lon0 = None
        THEN [t EXCEPT !.latitude = random_uniform(rs, t.drawn, 800, 3700),
                       !.longitude = random_uniform(rs, t.drawn + 1, 6800, 9700),
                       !.np_random_seed = user_id + trip_index,
                       !.drawn = @ + 2]
        ELSE [t EXCEPT !.latitude = lat0, !.longitude = lon0]

\* lines 612-614
engine_load_of(d, rs, t) ==
    LET mean == from_column(d, "engine_load")
        u == random_uniform(rs, t.drawn, -10, 10).v
        throttle_mean == t.trip_data["throttle_position"].v
    IN  IF mean = None
        THEN with_field(t, "engine_load",
                        number(np_maximum(0, -np_maximum(-100, -((throttle_mean * 8) \div 10 + u)))),
                        "fallback", 1)
        ELSE with_field(t, "engine_load", mean, "column", 0)

\* lines 616-619: coolant_temp is computed and not stored; its fallback draws one value
coolant_temp_of(d, t) ==
    IF from_column(d, "coolant_temp") = None THEN [t EXCEPT !.drawn = @ + 1] ELSE t

\* line 664
steering_angle_of(d, rs, t) ==
    LET mean == from_column(d, "steering_angle")
    IN  IF falsy(mean)
        THEN with_field(t, "steering_angle", random_uniform(rs, t.drawn, -20, 20), "fallback", 1)
        ELSE with_field(t, "steering_angle", mean, "column", 0)

\* line 665 (steering_angle * 0.1 in whole units)
angular_velocity_of(d, t) ==
    LET mean == from_column(d, "angular_velocity")
    IN  IF falsy(mean)
        THEN with_field(t, "angular_velocity", number(t.trip_data["steering_angle"].v \div 10),
                        "fallback", 0)
        ELSE with_field(t, "angular_velocity", mean, "column", 0)

\* lines 666-672 and 724: speed_num.diff().mean() / 3.6 in whole units, for a
\* speed column without gaps; a segment has more than one row, so the draw of
\* line 672 is not reached
acceleration_of(d, t) ==
    LET mean == from_column(d, "acceleration")
        diff_mean == (d.speed[d.n].val - d.speed[1].val) \div (d.n - 1)
    IN  IF mean = None
        THEN with_field(t, "acceleration", number((diff_mean * 10) \div 36), "fallback", 0)
        ELSE with_field(t, "acceleration", IF falsy(mean) THEN number(0) ELSE mean, "column", 0)

\* lines 674-681 and 725
gear_position_of(d, rs, t) ==
    LET mean == from_column(d, "gear_position")
        avg_speed == t.trip_data["avg_speed_kmph"].v
    IN  IF mean = None
        THEN with_field(t, "gear_position",
                        IF avg_speed < 25 THEN random_uniform(rs, t.drawn, 1, 2)
                        ELSE IF avg_speed < 50 THEN random_uniform(rs, t.drawn, 2, 4)
                        ELSE random_uniform(rs, t.drawn, 4, 6),
                        "fallback", 1)
        ELSE IF falsy(mean) THEN with_field(t, "gear_position", number(3), "fallback", 0)
        ELSE with_field(t, "gear_position", mean, "column", 0)

\* line 683
tire_pressure_of(d, rs, t) ==
    LET mean == from_column(d, "tire_pressure")
    IN  IF falsy(mean)
        THEN with_field(t, "tire_pressure", random_uniform(rs, t.drawn, 28, 36), "fallback", 1)
        ELSE with_field(t, "tire_pressure", mean, "column", 0)

\* lines 684-686
brake_pressure_of(d, rs, t) ==
    LET mean == from_column(d, "brake_pressure")
    IN  IF mean = None
        THEN with_field(t, "brake_pressure",
                        IF t.trip_data["brake_events"].v > 0 THEN random_uniform(rs, t.drawn, 2, 15)
                        ELSE random_uniform(rs, t.drawn, 0, 3),
                        "fallback", 1)
        ELSE with_field(t, "brake_pressure", mean, "column", 0)

\* latitude + random.uniform(-0.01, 0.01)
shifted(x, u) == IF x = float_nan THEN float_nan ELSE number(x.v + u.v)

\* lines 701-706: the end coordinates and the three location texts
locations(d, rs, t) ==
    LET lat1 == safe_numeric_operation(d, "latitude", "last")
        lon1 == safe_numeric_operation(d, "longitude", "last")
        n1 == IF falsy(lat1) THEN 1 ELSE 0
        n2 == IF falsy(lon1) THEN 1 ELSE 0
        end_lat == or_else(lat1, shifted(t.latitude, random_uniform(rs, t.drawn, -1, 1)))
        end_lon == or_else(lon1, shifted(t.longitude, random_uniform(rs, t.drawn + n1, -1, 1)))
    IN  [t EXCEPT !.trip_data["start_location"] = location(t.latitude, t.longitude),
                  !.trip_data["end_location"] = location(end_lat, end_lon),
                  !.trip_data["gps_path"] = location(t.latitude, t.longitude),
                  !.drawn = @ + n1 + n2]

\* lines 573-734: the record built, the source of each optional field and the
\* number of values drawn from the random module in state rs
build_trip_data(d, user_id, trip_index, vehicle_number, rs) ==
    locations(d, rs,
     brake_pressure_of(d, rs,
      tire_pressure_of(d, rs,
       gear_position_of(d, rs,
        acceleration_of(d,
         angular_velocity_of(d,
          steering_angle_of(d, rs,
           coolant_temp_of(d,
            engine_load_of(d, rs,
             coordinates(d, rs, user_id, trip_index,
              core_fields(d, user_id, vehicle_number)))))))))))

(***************************************************************************)
(* SpecExtract: process_trip_segment is called up to MaxCalls times with   *)
(* the same segment, user and trip index in one execution, while other     *)
(* code of the run (the plate generator, calls for other segments) draws   *)
(* from the random module in between.                                      *)
(***************************************************************************)
ExtractRows == 2 * MaxSegmentRows + 1

\* speed, rpm and throttle of a segment; throttle -1: the column is missing
Calm == [speed |-> <<40, 40>>, rpm |-> 2000, throttle |-> 30]

DrivingStyles ==
    { Calm,
      [speed |-> <<40, 40>>, rpm |-> 2000, throttle |-> 80],
      [speed |-> <<90, 90>>, rpm |-> 2000, throttle |-> 80],
      [speed |-> <<90, 90>>, rpm |-> 6000, throttle |-> 80],
      [speed |-> <<100, 80>>, rpm |-> 2000, throttle |-> 30],
      [speed |-> <<40, 40>>, rpm |-> 2000, throttle |-> -1] }

OptionalFields ==
    {"engine_load", "tire_pressure", "brake_pressure", "steering_angle", "angular_velocity",
     "acceleration", "gear_position"}

\* a column of the segment: cells that are all missing, all 0, all 3, or that
\* swing about 0 and average to exactly 0
OptionalColumns ==
    { [i \in 1..ExtractRows |-> NaN], [i \in 1..ExtractRows |-> Num(0)],
      [i \in 1..ExtractRows |-> Num(3)],
      [i \in 1..ExtractRows |-> IF i = ExtractRows THEN Num(0)
                                ELSE IF i % 2 = 0 THEN Num(4) ELSE Num(-4)] }

\* the driver_rating column: missing, one of the three labels, or the number
\* a driving_score / safety_score column holds
Ratings == {None, text("Good"), number(87)}

\* the trip_distance column, in kilometres: missing, or its last value
Odometer == {None, number(50), number(MAX_TRIP_DISTANCE_KM \div 10 + 500)}

ExtractSegment(style, field, cells, rating, odometer, located) ==
    LET col(present, cell) == IF present THEN [i \in 1..ExtractRows |-> cell] ELSE <<>>
        optional(name) == IF name = field THEN cells ELSE <<>>
    IN  [n |-> ExtractRows,
         first_index |-> 0,
         columns |-> {"speed", "rpm", "trip_time"}
                     \cup (IF style.throttle >= 0 THEN {"throttle"} ELSE {})
                     \cup (IF field = "" THEN {} ELSE {field})
                     \cup (IF rating = None THEN {} ELSE {"driver_rating"})
                     \cup (IF odometer = None THEN {} ELSE {"trip_distance"})
                     \cup (IF located THEN {"latitude", "longitude"} ELSE {}),
         speed |-> [i \in 1..ExtractRows |-> Num(style.speed[2 - (i % 2)])],
         rpm |-> col(TRUE, Num(style.rpm)),
         throttle |-> col(style.throttle >= 0, Num(style.throttle)),
         trip_time |-> col(TRUE, Num(MIN_TRIP_DURATION_MINUTES + 1)),
         trip_distance |-> col(odometer # None, Num(odometer.v)),
         latitude |-> col(located, Num(1250)),
         longitude |-> col(located, Num(7750)),
         driver_rating |-> col(rating # None, rating),
         engine_load |-> optional("engine_load"),
         coolant_temp |-> <<>>,
         tire_pressure |-> optional("tire_pressure"),
         brake_pressure |-> optional("brake_pressure"),
         steering_angle |-> optional("steering_angle"),
         angular_velocity |-> optional("angular_velocity"),
         acceleration |-> optional("acceleration"),
         gear_position |-> optional("gear_position")]

\* segments of every style without optional columns, and calm segments with
\* one optional column
ExtractSegments ==
    { ExtractSegment(style, "", <<>>, rating, odometer, located) :
        style \in DrivingStyles, rating \in Ratings, odometer \in Odometer, located \in BOOLEAN }
    \cup { ExtractSegment(Calm, fc[1], fc[2], None, None, located) :
             fc \in OptionalFields \X OptionalColumns, located \in BOOLEAN }

InitExtract ==
    /\ \E d \in ExtractSegments, seed \in Seeds :
        \E h \in IF safe_series(d, "throttle") THEN {0} ELSE {-7, 7} :
            extraction = [NoExtraction EXCEPT
                             !.pc = "run", !.df_segment = d, !.user_id = 7, !.trip_index = 0,
                             !.str_hash = h,
                             !.random_state = [seed |-> seed, pos |-> 0]]
    /\ IdleDetect
    /\ IdlePlate
    /\ IdleCols
    /\ IdleBatch
    /\ IdleRace
    /\ IdleSynth
    /\ IdleValidate
    /\ IdleIdentity
    /\ IdleIngest
    /\ IdleSynthesis

\* the values np.random.normal(0, 10, length) gives after np.random.seed: a
\* fixed function of the seed
np_random_normal(seed_value, length) == [i \in 1..length |-> (((seed_value + i) % 3) - 1) * 10]

\* lines 553-566 for a segment with speed and rpm: a missing throttle column
\* is generated, which seeds both generators (lines 492-494)
with_required_fields(d, str_hash, rs) ==
    IF safe_series(d, "throttle") THEN [df_segment |-> d, random_state |-> rs]
    ELSE LET seed_value == d.n + str_hash
             throttle_generated ==
                 generate_realistic_field("throttle", d, 0, np_random_normal(seed_value, d.n))
         IN  [df_segment |-> [d EXCEPT !.throttle = [i \in 1..d.n |-> Num(throttle_generated[i])],
                                       !.columns = @ \cup {"throttle"}],
              random_state |-> [seed |-> random_seed(seed_value), pos |-> 0]]

\* one call of process_trip_segment: the record as validation leaves it and
\* whether it is returned
CallProcessTripSegment ==
    /\ extraction.pc = "run"
    /\ Len(extraction.records) < MaxCalls
    /\ LET g == with_required_fields(extraction.df_segment, extraction.str_hash,
                                     extraction.random_state)
           b == build_trip_data(g.df_segment, extraction.user_id, extraction.trip_index,
                                Plate1, g.random_state)
           v == validate_trip_data(b.trip_data)
       IN  extraction' = [extraction EXCEPT
                             !.random_state = [g.random_state EXCEPT !.pos = @ + b.drawn],
                             !.drawn = @ + b.drawn,
                             !.records = Append(@, [by |-> b.by,
                                                    trip_data |-> v.trip_data,
                                                    is_valid |-> v.is_valid])]
    /\ UNCHANGED othersExtract

\* other code of the run draws a value from the random module
DrawElsewhere ==
    /\ extraction.pc = "run"
    /\ extraction.others < MaxDraws
    /\ extraction' = [extraction EXCEPT !.random_state.pos = @ + 1, !.others = @ + 1]
    /\ UNCHANGED othersExtract

NextExtract == CallProcessTripSegment \/ DrawElsewhere

SpecExtract == InitExtract /\ [][NextExtract]_vars

(***************************************************************************)
(* Claims about the record process_trip_segment builds (SpecExtract).      *)
(***************************************************************************)
\* C24: for engine_load, tire_pressure, brake_pressure, steering_angle,
\* angular_velocity, acceleration and gear_position, when the column holds at
\* least one numeric value the record's field is the column's mean, a mean of
\* exactly 0 included; the fallback value is used only when the column is
\* missing or holds no numeric value.
C24_MeanOfColumnIsKept ==
    \A k \in DOMAIN extraction.records : \A f \in OptionalFields :
        LET mean == from_column(extraction.df_segment, f)
            r == extraction.records[k]
        IN  /\ mean # None => (r.trip_data[f] = mean /\ r.by[f] = "column")
            /\ r.by[f] = "fallback" => mean = None

\* C25: process_trip_segment gives the same record for the same segment,
\* filename, user id and trip index, generated coordinates and fallback
\* fields included, whatever the run processed before the call.
C25_SameInputsSameRecord ==
    \A j \in DOMAIN extraction.records, k \in DOMAIN extraction.records :
        extraction.records[j].trip_data = extraction.records[k].trip_data

\* C28: in every record process_trip_segment returns, distance equals
\* distance_km and avg_speed equals avg_speed_kmph, also after validation
\* replaced an out-of-range value.
C28_DuplicateKeysAgree ==
    \A k \in DOMAIN extraction.records :
        LET r == extraction.records[k]
        IN  r.is_valid =>
                /\ r.trip_data["distance"] = r.trip_data["distance_km"]
                /\ r.trip_data["avg_speed"] = r.trip_data["avg_speed_kmph"]

ScoreLabels == {text("Good"), text("Average"), text("Risky")}

\* the weighted count of the risk factors of a record
RiskFactors(td) ==
    (IF td["max_rpm"].v > 5000 THEN 2 ELSE 0)
    + (IF td["brake_events"].v > 5 THEN 2 ELSE 0)
    + (IF td["avg_speed_kmph"].v > 80 THEN 1 ELSE 0)
    + (IF td["throttle_position"].v > 70 THEN 1 ELSE 0)

\* C30: every record's score is Good, Average or Risky; without a rating
\* column it is Risky when the weighted count of risk factors is at least 3,
\* Average when it is at least 1, Good otherwise.
C30_ScoreIsOneOfThree ==
    \A k \in DOMAIN extraction.records :
        LET r == extraction.records[k]
        IN  r.is_valid =>
                /\ r.trip_data["score"] \in ScoreLabels
                /\ "driver_rating" \notin extraction.df_segment.columns =>
                       r.trip_data["score"] =
                           IF RiskFactors(r.trip_data) >= 3 THEN text("Risky")
                           ELSE IF RiskFactors(r.trip_data) >= 1 THEN text("Average")
                           ELSE text("Good")

====
